---- MODULE Spec2Model ----
(***************************************************************************)
(* Model of the i18n helper extension: the dictionary store                *)
(* (TranslationService), the textual key-path resolver                     *)
(* (JsonKeyPathService) and the cross-file navigator                       *)
(* (LanguageFilesService).                                                 *)
(*                                                                         *)
(* JavaScript strings are sequences of one-character strings, so that      *)
(* split, trim, indexOf, the regular expression of findPositionForKey,     *)
(* JSON.stringify and JSON.parse are computed character by character.      *)
(* Files hold text; trees exist only after JSON.parse.                     *)
(***************************************************************************)
EXTENDS Integers, Sequences, FiniteSets, TLC

(***************************************************************************)
(* JavaScript values                                                       *)
(***************************************************************************)

\* the value `undefined`
Undefined == [t |-> "undefined"]

\* a primitive string
JStr(s) == [t |-> "string", s |-> s]

\* a number (only String.prototype.length produces one here)
JNum(n) == [t |-> "number", n |-> n]

\* an object: its own enumerable string-keyed properties in insertion order
JObj(e) == [t |-> "object", e |-> e]

\* typeof v
TypeOf(v) == v.t

\* ToBoolean(v): undefined, "" and 0 are falsy
Truthy(v) ==
  CASE v.t = "undefined" -> FALSE
    [] v.t = "string" -> v.s # <<>>
    [] v.t = "number" -> v.n # 0
    [] OTHER -> TRUE

HasOwn(e, k) == \E i \in 1..Len(e) : e[i].k = k

OwnIndex(e, k) == CHOOSE i \in 1..Len(e) : e[i].k = k

Digits == <<"0", "1", "2", "3", "4", "5", "6", "7", "8", "9">>

DigitValue(c) == (CHOOSE i \in 1..10 : Digits[i] = c) - 1

\* a canonical array index: decimal digits without a leading zero
IsArrayIndex(k) ==
  /\ Len(k) > 0
  /\ \A i \in 1..Len(k) : \E d \in 1..10 : Digits[d] = k[i]
  /\ (Len(k) > 1 => k[1] # "0")

RECURSIVE ToIndex(_)
ToIndex(k) ==
  IF k = <<>> THEN 0
  ELSE 10 * ToIndex(SubSeq(k, 1, Len(k) - 1)) + DigitValue(k[Len(k)])

LengthName == <<"l", "e", "n", "g", "t", "h">>

\* v[k] for a value that is not undefined: own properties of an object,
\* the characters and the length of a string
Get(v, k) ==
  CASE v.t = "object" ->
         IF HasOwn(v.e, k) THEN v.e[OwnIndex(v.e, k)].v ELSE Undefined
    [] v.t = "string" ->
         IF IsArrayIndex(k) /\ ToIndex(k) < Len(v.s)
           THEN JStr(<<v.s[ToIndex(k) + 1]>>)
         ELSE IF k = LengthName THEN JNum(Len(v.s))
         ELSE Undefined
    [] OTHER -> Undefined

\* o[k] = v on the property list of an object: an existing key keeps its
\* place, a new key goes last
SetProp(e, k, v) ==
  IF HasOwn(e, k)
    THEN [e EXCEPT ![OwnIndex(e, k)] = [k |-> k, v |-> v]]
    ELSE Append(e, [k |-> k, v |-> v])

(***************************************************************************)
(* String helpers                                                          *)
(***************************************************************************)

\* s.indexOf(c), -1 when absent (0-based)
IndexOf(s, c) ==
  IF \E i \in 1..Len(s) : s[i] = c
    THEN (CHOOSE i \in 1..Len(s) : s[i] = c /\ \A j \in 1..(i - 1) : s[j] # c) - 1
    ELSE -1

\* s.split(c)
RECURSIVE Split(_, _)
Split(s, c) ==
  LET i == IndexOf(s, c)
  IN  IF i = -1 THEN <<s>>
      ELSE <<SubSeq(s, 1, i)>> \o Split(SubSeq(s, i + 2, Len(s)), c)

\* parts.join(c)
RECURSIVE Join(_, _)
Join(parts, c) ==
  IF parts = <<>> THEN <<>>
  ELSE IF Len(parts) = 1 THEN parts[1]
  ELSE parts[1] \o c \o Join(Tail(parts), c)

IsWs(c) == c \in {" ", "\n", "\t", "\r"}

\* s.trim()
RECURSIVE Trim(_)
Trim(s) ==
  IF s = <<>> THEN s
  ELSE IF IsWs(s[1]) THEN Trim(Tail(s))
  ELSE IF IsWs(s[Len(s)]) THEN Trim(SubSeq(s, 1, Len(s) - 1))
  ELSE s

StartsWith(s, c) == Len(s) > 0 /\ s[1] = c

EndsWith(s, c) == Len(s) > 0 /\ s[Len(s)] = c

(***************************************************************************)
(* JSON.stringify(value, null, gap) and JSON.parse(text)                   *)
(***************************************************************************)

\* the quoted form of a string: '"' and '\' are escaped
RECURSIVE Escape(_)
Escape(s) ==
  IF s = <<>> THEN <<>>
  ELSE IF s[1] \in {"\"", "\\"} THEN <<"\\", s[1]>> \o Escape(Tail(s))
  ELSE <<s[1]>> \o Escape(Tail(s))

QuoteJSON(s) == <<"\"">> \o Escape(s) \o <<"\"">>

\* JSON.stringify with a non-empty gap; ind is the current indentation
RECURSIVE Str(_, _, _)
Str(v, ind, gap) ==
  IF v.t = "string" THEN QuoteJSON(v.s)
  ELSE IF v.e = <<>> THEN <<"{", "}">>
  ELSE LET step == ind \o gap
           member(i) == step \o QuoteJSON(v.e[i].k) \o <<":", " ">>
                             \o Str(v.e[i].v, step, gap)
       IN  <<"{", "\n">>
             \o Join([i \in 1..Len(v.e) |-> member(i)], <<",", "\n">>)
             \o <<"\n">> \o ind \o <<"}">>

JSONstringify(v, gap) == Str(v, <<>>, gap)

\* the result of a failed parse step
Fail == [ok |-> FALSE, v |-> Undefined, next |-> 0]

RECURSIVE SkipWs(_, _)
SkipWs(t, i) == IF i <= Len(t) /\ IsWs(t[i]) THEN SkipWs(t, i + 1) ELSE i

\* the characters of a string literal from position i (after the opening
\* quote) up to its closing quote
RECURSIVE ScanString(_, _, _)
ScanString(t, i, acc) ==
  IF i > Len(t) THEN Fail
  ELSE IF t[i] = "\"" THEN [ok |-> TRUE, v |-> acc, next |-> i + 1]
  ELSE IF t[i] = "\\" THEN
         IF i + 1 <= Len(t) /\ t[i + 1] \in {"\"", "\\", "/"}
           THEN ScanString(t, i + 2, Append(acc, t[i + 1]))
           ELSE Fail
  ELSE IF t[i] \in {"\n", "\t", "\r"} THEN Fail
  ELSE ScanString(t, i + 1, Append(acc, t[i]))

RECURSIVE ParseValue(_, _)
RECURSIVE ParseMembers(_, _, _)
ParseValue(t, i) ==
  LET j == SkipWs(t, i)
  IN  IF j > Len(t) THEN Fail
      ELSE IF t[j] = "\"" THEN
             LET r == ScanString(t, j + 1, <<>>)
             IN  IF r.ok THEN [ok |-> TRUE, v |-> JStr(r.v), next |-> r.next]
                 ELSE Fail
      ELSE IF t[j] = "{" THEN
             LET k == SkipWs(t, j + 1)
             IN  IF k <= Len(t) /\ t[k] = "}"
                   THEN [ok |-> TRUE, v |-> JObj(<<>>), next |-> k + 1]
                   ELSE ParseMembers(t, k, <<>>)
      ELSE Fail

\* the members of an object from the key at position i on
ParseMembers(t, i, acc) ==
  IF i > Len(t) \/ t[i] # "\"" THEN Fail
  ELSE LET ks == ScanString(t, i + 1, <<>>)
       IN  IF ~ks.ok THEN Fail
           ELSE LET c == SkipWs(t, ks.next)
                IN  IF c > Len(t) \/ t[c] # ":" THEN Fail
                    ELSE LET vr == ParseValue(t, c + 1)
                         IN  IF ~vr.ok THEN Fail
                             ELSE LET acc2 == SetProp(acc, ks.v, vr.v)
                                      d == SkipWs(t, vr.next)
                                  IN  IF d > Len(t) THEN Fail
                                      ELSE IF t[d] = "}" THEN
                                        [ok |-> TRUE, v |-> JObj(acc2), next |-> d + 1]
                                      ELSE IF t[d] = "," THEN
                                        ParseMembers(t, SkipWs(t, d + 1), acc2)
                                      ELSE Fail

\* JSON.parse throws a SyntaxError
SyntaxError == [t |-> "SyntaxError"]

JSONparse(t) ==
  LET r == ParseValue(t, 1)
  IN  IF r.ok /\ SkipWs(t, r.next) > Len(t) THEN r.v ELSE SyntaxError

(***************************************************************************)
(* Text documents                                                          *)
(***************************************************************************)

Min(a, b) == IF a < b THEN a ELSE b

Max(a, b) == IF a > b THEN a ELSE b

\* s.substring(start, end): both clamped to [0, length], swapped if needed
Substring(s, start, end) ==
  LET a == Min(Max(start, 0), Len(s))
      b == Min(Max(end, 0), Len(s))
  IN  SubSeq(s, Min(a, b) + 1, Max(a, b))

\* the lines of a document (document.lineAt(n).text is LinesOf(text)[n + 1])
LinesOf(text) == Split(text, "\n")

\* document.positionAt(offset)
PositionAt(text, offset) ==
  LET o == Min(Max(offset, 0), Len(text))
      nl == {i \in 1..o : text[i] = "\n"}
      lineStart == IF nl = {} THEN 0 ELSE CHOOSE i \in nl : \A j \in nl : j <= i
  IN  [line |-> Cardinality(nl), character |-> o - lineStart]

(***************************************************************************)
(* JsonKeyPathService                                                      *)
(***************************************************************************)

RECURSIVE getIndentLevel(_)
getIndentLevel(line) ==
  IF line = <<>> THEN 0
  ELSE IF line[1] = " " THEN 1 + getIndentLevel(Tail(line))
  ELSE IF line[1] = "\t" THEN 4 + getIndentLevel(Tail(line))
  ELSE 0

\* the key token of a line: the text before the first ':', trimmed, with
\* one layer of surrounding quotes removed
KeyOfLine(line) ==
  LET key == Trim(Substring(line, 0, IndexOf(line, ":")))
  IN  IF \/ StartsWith(key, "\"") /\ EndsWith(key, "\"")
         \/ StartsWith(key, "'") /\ EndsWith(key, "'")
        THEN Substring(key, 1, Len(key) - 1)
        ELSE key

\* the upward walk: lineNumber is 0-based and runs down to 0
RECURSIVE ParentKeys(_, _, _, _)
ParentKeys(lines, lineNumber, indentLevel, parentKeys) ==
  IF lineNumber < 0 THEN parentKeys
  ELSE LET currentLine == lines[lineNumber + 1]
           currentIndent == getIndentLevel(currentLine)
       IN  IF currentIndent < indentLevel /\ IndexOf(currentLine, ":") # -1
             THEN ParentKeys(lines, lineNumber - 1, currentIndent,
                             <<KeyOfLine(currentLine)>> \o parentKeys)
             ELSE ParentKeys(lines, lineNumber - 1, indentLevel, parentKeys)

\* a version without the test of the cursor column against the colon
getKeyPathAtPositionAnyColumn(text, posLine, posCharacter) ==
  LET lines == LinesOf(text)
  IN  IF JSONparse(text) = SyntaxError THEN Undefined
      ELSE IF posLine < 0 \/ posLine >= Len(lines) THEN Undefined
      ELSE LET line == lines[posLine + 1]
               colonPos == IndexOf(line, ":")
           IN  IF colonPos = -1 THEN Undefined
               ELSE LET key == KeyOfLine(line)
                        parentKeys == ParentKeys(lines, posLine - 1,
                                                 getIndentLevel(line), <<>>)
                    IN  IF Len(parentKeys) > 0
                          THEN JStr(Join(parentKeys \o <<key>>, <<".">>))
                          ELSE JStr(key)

\* the result is JStr(path) or Undefined; every exception (malformed JSON,
\* a line outside the document) is caught and yields Undefined
getKeyPathAtPosition(text, posLine, posCharacter) ==
  LET lines == LinesOf(text)
  IN  IF JSONparse(text) = SyntaxError THEN Undefined
      ELSE IF posLine < 0 \/ posLine >= Len(lines) THEN Undefined
      ELSE LET line == lines[posLine + 1]
               colonPos == IndexOf(line, ":")
           IN  IF colonPos = -1 THEN Undefined
               ELSE IF posCharacter > colonPos THEN Undefined
               ELSE LET key == KeyOfLine(line)
                        parentKeys == ParentKeys(lines, posLine - 1,
                                                 getIndentLevel(line), <<>>)
                    IN  IF Len(parentKeys) > 0
                          THEN JStr(Join(parentKeys \o <<key>>, <<".">>))
                          ELSE JStr(key)

(***************************************************************************)
(* TranslationService.getTranslationValue                                  *)
(***************************************************************************)

\* the for loop: Undefined as soon as a part is missing
RECURSIVE WalkParts(_, _)
WalkParts(currentObj, keyParts) ==
  IF keyParts = <<>> THEN currentObj
  ELSE IF Get(currentObj, Head(keyParts)) = Undefined THEN Undefined
  ELSE WalkParts(Get(currentObj, Head(keyParts)), Tail(keyParts))

\* a version that tests the walked value for truthiness instead of its type
getTranslationValueTruthy(translations, key) ==
  LET currentObj == WalkParts(translations, Split(key, "."))
  IN  IF TypeOf(currentObj) = "string" /\ Truthy(currentObj)
        THEN currentObj ELSE Undefined

getTranslationValue(translations, key) ==
  LET currentObj == WalkParts(translations, Split(key, "."))
  IN  IF TypeOf(currentObj) = "string" THEN currentObj ELSE Undefined

(***************************************************************************)
(* findPositionForKey (LanguageFilesService)                               *)
(***************************************************************************)

\* the length of a match of "segment"\s*: at 0-based index idx, 0 if none
MatchLenAt(text, idx, segment) ==
  LET n == Len(segment)
      q2 == idx + n + 2
  IN  IF /\ q2 <= Len(text)
         /\ text[idx + 1] = "\""
         /\ SubSeq(text, idx + 2, idx + n + 1) = segment
         /\ text[q2] = "\""
        THEN LET c == SkipWs(text, q2 + 1)
             IN  IF c <= Len(text) /\ text[c] = ":" THEN c - idx ELSE 0
        ELSE 0

\* pattern.exec(text) from lastIndex: the leftmost match at or after it
ExecFrom(text, lastIndex, segment) ==
  LET hits == {i \in lastIndex..(Len(text) - 1) : MatchLenAt(text, i, segment) > 0}
  IN  IF hits = {} THEN -1
      ELSE LET i == CHOOSE i \in hits : \A j \in hits : i <= j
           IN  i + MatchLenAt(text, i, segment)

RECURSIVE FindFrom(_, _, _)
FindFrom(text, searchPos, keySegments) ==
  IF keySegments = <<>> THEN searchPos
  ELSE LET p == ExecFrom(text, searchPos, Head(keySegments))
       IN  IF p = -1 THEN -1 ELSE FindFrom(text, p, Tail(keySegments))

findPositionForKey(text, keySegments) == FindFrom(text, 0, keySegments)

(***************************************************************************)
(* Bounded input families                                                  *)
(***************************************************************************)

\* the number of keys of a tree, at all depths
RECURSIVE Size(_)
RECURSIVE SizeOfProps(_)
Size(v) == IF v.t = "object" THEN SizeOfProps(v.e) ELSE 0

SizeOfProps(e) == IF e = <<>> THEN 0 ELSE 1 + Size(e[1].v) + SizeOfProps(Tail(e))

\* the dictionary trees with at most n keys and at most d levels of nesting:
\* keys from `keys' (distinct within one object, in every order), leaves
\* from `vals'
RECURSIVE Props(_, _, _, _, _)
RECURSIVE Nodes(_, _, _, _)
Nodes(keys, vals, n, d) ==
  {JStr(s) : s \in vals}
    \cup (IF d > 0 THEN {JObj(e) : e \in Props(keys, keys, vals, n, d)} ELSE {})

Props(avail, keys, vals, n, d) ==
  {<<>>} \cup
  (IF n = 0 THEN {}
   ELSE UNION {
          UNION { { <<[k |-> k, v |-> v]>> \o rest :
                    rest \in Props(avail \ {k}, keys, vals, n - 1 - Size(v), d) } :
                  v \in Nodes(keys, vals, n - 1, d - 1) } :
          k \in avail })

Trees(keys, vals, n, d) == {JObj(e) : e \in Props(keys, keys, vals, n, d)}

\* the dotted paths of 1..n segments over `segs'
RECURSIVE PathsOver(_, _)
PathsOver(segs, n) ==
  IF n = 0 THEN {}
  ELSE segs \cup PathsOver(segs, n - 1)
            \cup {p \o <<".">> \o s : p \in PathsOver(segs, n - 1), s \in segs}

(***************************************************************************)
(* State                                                                   *)
(***************************************************************************)

VARIABLES
  disk,                \* file name -> [exists, text]: the i18n directory
  translations,        \* TranslationService.translations
  translationsLoaded,  \* TranslationService._translationsLoaded
  ld,                  \* the loadTranslations calls in flight
  ad,                  \* the addTranslation call in flight
  adds,                \* the number of addTranslation calls started
  lastCall,            \* the last getTranslationValue / getKeyPathAtPosition call
  languageFiles,       \* LanguageFilesService.languageFiles: code -> file name
  nav,                 \* the navigateToTranslation calls in flight
  selection,           \* the active editor: [doc, pos]
  clipboard,           \* vscode.env.clipboard: the text last written, if any
  scan,                \* the scanLanguageFiles calls made on their own
  table,               \* the saveTranslationChanges call of the table view
  decorations          \* the contentText of the decorations the editor shows

vars == <<disk, translations, translationsLoaded, ld, ad, adds, lastCall,
          languageFiles, nav, selection, clipboard, scan, table,
          decorations>>

storeVars == <<translations, translationsLoaded, ld, ad, adds>>

navVars == <<languageFiles, nav, selection, clipboard, scan, table,
            decorations>>

\* file names of the i18n directory
EN == <<"e", "n", ".", "j", "s", "o", "n">>

FR == <<"f", "r", ".", "j", "s", "o", "n">>

Files == {EN, FR}

\* the configured dictionary file (i18nHelper.i18nFilePath, default en.json)
i18nFilePath == EN

NoFile == [exists |-> FALSE, text |-> <<>>]

FileOf(text) == [exists |-> TRUE, text |-> text]

\* the gap of every JSON.stringify(..., null, 2) in the sources
Gap2 == <<" ", " ">>

\* a file that is not JSON
Malformed == <<"{", "\"", "a", "\"">>

(***************************************************************************)
(* Bounds and input sets                                                   *)
(***************************************************************************)

MaxStoreKeys == 2

MaxDepth == 2

MaxPathLen == 2

MaxAdds == 1

Segs == {<<"a">>, <<"b">>}

\* "0" indexes a string, as any canonical array index does
QuerySegs == Segs \cup {<<"0">>}

StoreVals == {<<>>, <<"x", "y">>, <<"\"">>}

AddVals == {<<>>, <<"v">>, <<"\\", "\"">>}

LoadIds == {1}

NavIds == {1}

Answers == {"Yes", "No", "dismissed"}

(***************************************************************************)
(* TranslationService.loadTranslations                                     *)
(***************************************************************************)

\* no call recorded: every operation that starts forgets the last call
NoCall == [fn |-> "none", key |-> <<>>, result |-> Undefined,
           tree |-> Undefined, reloaded |-> FALSE, languageId |-> "none",
           matches |-> <<>>, maxLength |-> 0,
           text |-> <<>>, pos |-> [line |-> 0, character |-> 0],
           loaded |-> FALSE]

LdIdle == [pc |-> "idle", path |-> <<>>, msg |-> "none", epoch |-> 0]

Resting(pc) == pc \in {"idle", "done"}

\* up to the first await: the configured path is read before fs.pathExists
LoadStart(i) ==
  /\ Resting(ld[i].pc)
  /\ ld' = [ld EXCEPT ![i] = [pc |-> "pathExists", path |-> i18nFilePath,
                              msg |-> "none", epoch |-> adds]]
  /\ lastCall' = NoCall
  /\ UNCHANGED <<disk, translations, translationsLoaded, ad, adds>>
  /\ UNCHANGED navVars

\* fs.pathExists resolves
LoadPathExists(i) ==
  /\ ld[i].pc = "pathExists"
  /\ IF disk[ld[i].path].exists
       THEN /\ ld' = [ld EXCEPT ![i].pc = "readFile"]
            /\ UNCHANGED translationsLoaded
       ELSE /\ ld' = [ld EXCEPT ![i].pc = "done", ![i].msg = "warning"]
            /\ translationsLoaded' = FALSE
  /\ UNCHANGED <<disk, translations, ad, adds, lastCall>>
  /\ UNCHANGED navVars

\* fs.readFile resolves, then JSON.parse; any exception is caught
LoadReadFile(i) ==
  /\ ld[i].pc = "readFile"
  /\ LET parsed == JSONparse(disk[ld[i].path].text)
     IN  IF disk[ld[i].path].exists /\ parsed # SyntaxError
           THEN /\ translations' = parsed
                /\ translationsLoaded' = TRUE
                /\ ld' = [ld EXCEPT ![i].pc = "done"]
           ELSE /\ translationsLoaded' = FALSE
                /\ ld' = [ld EXCEPT ![i].pc = "done", ![i].msg = "error"]
                /\ UNCHANGED translations
  /\ UNCHANGED <<disk, ad, adds, lastCall>>
  /\ UNCHANGED navVars

(***************************************************************************)
(* TranslationService.getTranslationValue, as called by the providers      *)
(***************************************************************************)

\* reloaded: a loadTranslations that started after the last addTranslation
\* returned has completed
GetTranslationValue(key) ==
  /\ lastCall' = [NoCall EXCEPT
                    !.fn = "getTranslationValue",
                    !.key = key,
                    !.result = getTranslationValue(translations, key),
                    !.tree = translations,
                    !.reloaded = \E i \in LoadIds :
                                   /\ ld[i].pc = "done"
                                   /\ ld[i].epoch = adds
                                   /\ ad.pc = "done"]
  /\ UNCHANGED <<disk, translations, translationsLoaded, ld, ad, adds>>
  /\ UNCHANGED navVars

(***************************************************************************)
(* TranslationService.addTranslation                                       *)
(***************************************************************************)

\* before: the file system, this.translations and this._translationsLoaded
\* when the call was made; answer: what the overwrite prompt resolved to;
\* wrote: how fs.writeFile settled
NoBefore == [disk |-> Undefined, translations |-> Undefined, loaded |-> FALSE]

AdIdle == [pc |-> "idle", key |-> <<>>, value |-> <<>>, tr |-> Undefined,
           result |-> "none", msg |-> "none", prompted |-> FALSE,
           answer |-> "none", wrote |-> "none", before |-> NoBefore]

\* the walk over keyParts on the parsed tree, the creation of intermediate
\* objects and the assignment of the leaf; `refused' when an intermediate
\* part holds a truthy non-object, `existing' is currentObj[lastPart]
\* before the assignment
\* a version that descends into a fresh object without attaching it to its
\* parent
RECURSIVE AddWalkDetached(_, _, _)
AddWalkDetached(currentObj, keyParts, value) ==
  LET part == Head(keyParts)
      child == Get(currentObj, part)
  IN  IF Len(keyParts) = 1
        THEN [refused |-> FALSE, existing |-> child,
              tree |-> JObj(SetProp(currentObj.e, part, JStr(value)))]
      ELSE IF ~Truthy(child)
        THEN LET r == AddWalkDetached(JObj(<<>>), Tail(keyParts), value)
             IN  [r EXCEPT !.tree = currentObj]
      ELSE IF TypeOf(child) # "object"
        THEN [refused |-> TRUE, existing |-> Undefined, tree |-> currentObj]
      ELSE LET r == AddWalkDetached(child, Tail(keyParts), value)
           IN  [r EXCEPT !.tree = JObj(SetProp(currentObj.e, part, r.tree))]

RECURSIVE AddWalk(_, _, _)
AddWalk(currentObj, keyParts, value) ==
  LET part == Head(keyParts)
      child == Get(currentObj, part)
  IN  IF Len(keyParts) = 1
        THEN [refused |-> FALSE, existing |-> child,
              tree |-> JObj(SetProp(currentObj.e, part, JStr(value)))]
      ELSE IF ~Truthy(child)
        THEN LET r == AddWalk(JObj(<<>>), Tail(keyParts), value)
             IN  [r EXCEPT !.tree = JObj(SetProp(currentObj.e, part, r.tree))]
      ELSE IF TypeOf(child) # "object"
        THEN [refused |-> TRUE, existing |-> Undefined, tree |-> currentObj]
      ELSE LET r == AddWalk(child, Tail(keyParts), value)
           IN  [r EXCEPT !.tree = JObj(SetProp(currentObj.e, part, r.tree))]

AddStart(key, value) ==
  /\ Resting(ad.pc)
  /\ adds < MaxAdds
  /\ adds' = adds + 1
  /\ ad' = [AdIdle EXCEPT !.pc = "pathExists", !.key = key, !.value = value,
                          !.before = [disk |-> disk,
                                      translations |-> translations,
                                      loaded |-> translationsLoaded]]
  /\ lastCall' = NoCall
  /\ UNCHANGED <<disk, translations, translationsLoaded, ld>>
  /\ UNCHANGED navVars

AddPathExists ==
  /\ ad.pc = "pathExists"
  /\ IF disk[i18nFilePath].exists
       THEN ad' = [ad EXCEPT !.pc = "readFile"]
       ELSE ad' = [ad EXCEPT !.pc = "done", !.result = "false", !.msg = "warning"]
  /\ UNCHANGED <<disk, translations, translationsLoaded, ld, adds, lastCall>>
  /\ UNCHANGED navVars

\* variant: the prompt is shown only when the terminal holds a truthy value
AddReadFilePromptTruthy ==
  /\ ad.pc = "readFile"
  /\ LET parsed == JSONparse(disk[i18nFilePath].text)
         w == AddWalk(parsed, Split(ad.key, "."), ad.value)
     IN  IF ~disk[i18nFilePath].exists \/ parsed = SyntaxError
           THEN ad' = [ad EXCEPT !.pc = "done", !.result = "false", !.msg = "error"]
         ELSE IF w.refused
           THEN ad' = [ad EXCEPT !.pc = "done", !.result = "false", !.msg = "error"]
         ELSE IF Truthy(w.existing)
           THEN ad' = [ad EXCEPT !.pc = "confirm", !.tr = w.tree, !.prompted = TRUE]
         ELSE ad' = [ad EXCEPT !.pc = "writeFile", !.tr = w.tree]
  /\ UNCHANGED <<disk, translations, translationsLoaded, ld, adds, lastCall>>
  /\ UNCHANGED navVars

\* fs.readFile resolves; parse, walk, and stop at the overwrite prompt or at
\* fs.writeFile
AddReadFile ==
  /\ ad.pc = "readFile"
  /\ LET parsed == JSONparse(disk[i18nFilePath].text)
         w == AddWalk(parsed, Split(ad.key, "."), ad.value)
     IN  IF ~disk[i18nFilePath].exists \/ parsed = SyntaxError
           THEN ad' = [ad EXCEPT !.pc = "done", !.result = "false", !.msg = "error"]
         ELSE IF w.refused
           THEN ad' = [ad EXCEPT !.pc = "done", !.result = "false", !.msg = "error"]
         ELSE IF w.existing # Undefined
           THEN ad' = [ad EXCEPT !.pc = "confirm", !.tr = w.tree, !.prompted = TRUE]
         ELSE ad' = [ad EXCEPT !.pc = "writeFile", !.tr = w.tree]
  /\ UNCHANGED <<disk, translations, translationsLoaded, ld, adds, lastCall>>
  /\ UNCHANGED navVars

\* the modal showWarningMessage resolves
AddConfirm(answer) ==
  /\ ad.pc = "confirm"
  /\ IF answer = "Yes"
       THEN ad' = [ad EXCEPT !.pc = "writeFile", !.answer = answer]
       ELSE ad' = [ad EXCEPT !.pc = "done", !.result = "false",
                             !.answer = answer]
  /\ UNCHANGED <<disk, translations, translationsLoaded, ld, adds, lastCall>>
  /\ UNCHANGED navVars

\* how fs.writeFile can settle: resolved; rejected before the file was
\* opened; rejected after the open with flag 'w' emptied the file
WriteOutcomes == {"resolved", "rejected", "rejectedAfterOpen"}

\* variant: the in-memory tree is replaced before fs.writeFile settles
AddWriteFileBehind(outcome) ==
  /\ ad.pc = "writeFile"
  /\ translations' = ad.tr
  /\ translationsLoaded' = TRUE
  /\ IF outcome = "resolved"
       THEN /\ disk' = [disk EXCEPT
                          ![i18nFilePath] = FileOf(JSONstringify(ad.tr, Gap2))]
            /\ ad' = [ad EXCEPT !.pc = "done", !.result = "true",
                                !.wrote = outcome]
       ELSE /\ disk' = IF outcome = "rejectedAfterOpen"
                         THEN [disk EXCEPT ![i18nFilePath] = FileOf(<<>>)]
                         ELSE disk
            /\ ad' = [ad EXCEPT !.pc = "done", !.result = "false",
                                !.msg = "error", !.wrote = outcome]
  /\ UNCHANGED <<ld, adds, lastCall>>
  /\ UNCHANGED navVars

\* fs.writeFile settles.  Resolved: the in-memory tree is replaced and true is
\* returned.  Rejected: the outer catch shows the error and returns false.
AddWriteFile(outcome) ==
  /\ ad.pc = "writeFile"
  /\ IF outcome = "resolved"
       THEN /\ disk' = [disk EXCEPT
                          ![i18nFilePath] = FileOf(JSONstringify(ad.tr, Gap2))]
            /\ translations' = ad.tr
            /\ translationsLoaded' = TRUE
            /\ ad' = [ad EXCEPT !.pc = "done", !.result = "true",
                                !.wrote = outcome]
       ELSE /\ disk' = IF outcome = "rejectedAfterOpen"
                         THEN [disk EXCEPT ![i18nFilePath] = FileOf(<<>>)]
                         ELSE disk
            /\ UNCHANGED <<translations, translationsLoaded>>
            /\ ad' = [ad EXCEPT !.pc = "done", !.result = "false",
                                !.msg = "error", !.wrote = outcome]
  /\ UNCHANGED <<ld, adds, lastCall>>
  /\ UNCHANGED navVars

(***************************************************************************)
(* LanguageFilesService: registry and navigation                           *)
(***************************************************************************)

JsonId == "json"

LanguageIds == {JsonId, "jsonc", "typescript", "plaintext"}

LowerCase == <<"a", "b", "c", "d", "e", "f", "g", "h", "i", "j", "k", "l", "m",
               "n", "o", "p", "q", "r", "s", "t", "u", "v", "w", "x", "y", "z">>

UpperCase == <<"A", "B", "C", "D", "E", "F", "G", "H", "I", "J", "K", "L", "M",
               "N", "O", "P", "Q", "R", "S", "T", "U", "V", "W", "X", "Y", "Z">>

\* [a-z] under the i flag
IsLetter(c) == \E i \in 1..26 : LowerCase[i] = c \/ UpperCase[i] = c

ToLowerChar(c) ==
  IF \E i \in 1..26 : UpperCase[i] = c
    THEN LowerCase[CHOOSE i \in 1..26 : UpperCase[i] = c]
    ELSE c

\* s.toLowerCase()
ToLowerCase(s) == [i \in 1..Len(s) |-> ToLowerChar(s[i])]

\* fileName.match(/^([a-z]{2})\.json$/i): the two letters of the group, or
\* Undefined if there is no match
MatchLanguageFile(fileName) ==
  IF /\ Len(fileName) = 7
     /\ IsLetter(fileName[1])
     /\ IsLetter(fileName[2])
     /\ ToLowerCase(SubSeq(fileName, 3, 7)) = <<".", "j", "s", "o", "n">>
    THEN JStr(SubSeq(fileName, 1, 2))
    ELSE Undefined

\* /^[a-z]{2}\.json$/i.test(fileName)
TestLanguageFile(fileName) ==
  /\ Len(fileName) = 7
  /\ \A i \in 1..2 : IsLetter(fileName[i])
  /\ fileName[3] = "."
  /\ \A i \in 4..7 :
       ToLowerChar(fileName[i]) = <<"j", "s", "o", "n">>[i - 3]

\* path.basename of a POSIX path: trailing separators are dropped, then the
\* part after the last separator is taken
RECURSIVE Basename(_)
Basename(filePath) ==
  IF filePath = <<>> THEN <<>>
  ELSE IF filePath[Len(filePath)] = "/"
    THEN Basename(SubSeq(filePath, 1, Len(filePath) - 1))
  ELSE LET seps == {i \in 1..Len(filePath) : filePath[i] = "/"}
       IN  IF seps = {} THEN filePath
           ELSE SubSeq(filePath,
                       (CHOOSE i \in seps : \A j \in seps : j <= i) + 1,
                       Len(filePath))

\* a version that matches the pattern on the whole path
getLanguageCodeFromPathWhole(filePath) ==
  LET match == MatchLanguageFile(filePath)
  IN  IF match # Undefined THEN JStr(ToLowerCase(match.s)) ELSE Undefined

getLanguageCodeFromPath(filePath) ==
  LET match == MatchLanguageFile(Basename(filePath))
  IN  IF match # Undefined THEN JStr(ToLowerCase(match.s)) ELSE Undefined

isLanguageFile(languageId, fsPath) ==
  IF languageId # JsonId THEN FALSE
  ELSE TestLanguageFile(Basename(fsPath))

\* this.languageFiles.set(languageCode, filePath)
MapSet(registry, languageCode, filePath) ==
  [c \in DOMAIN registry \cup {languageCode} |->
     IF c = languageCode THEN filePath ELSE registry[c]]

\* the loop over the names fs.readdir returned, in their order
RECURSIVE ScanLoop(_, _)
ScanLoop(registry, files) ==
  IF files = <<>> THEN registry
  ELSE LET file == Head(files)
           match == MatchLanguageFile(file)
       IN  ScanLoop(IF match # Undefined
                      THEN MapSet(registry, ToLowerCase(match.s), file)
                      ELSE registry,
                    Tail(files))

\* the orders in which fs.readdir may list the names of the directory
Readdir(d) ==
  LET names == {f \in DOMAIN d : d[f].exists}
  IN  {files \in [1..Cardinality(names) -> names] :
         \A i, j \in 1..Cardinality(names) : i # j => files[i] # files[j]}

EmptyMap == [c \in {} |-> <<>>]

ScanIds == {1}

\* listed: how fs.readdir settled; msg: the message shown; before: the
\* registry when the scan was called
ScanIdle == [pc |-> "idle", exists |-> FALSE, files |-> <<>>,
             listed |-> "none", msg |-> "none", before |-> <<>>]

\* a version that keeps the entries of the previous scan
ScanStartKeeps(i) ==
  /\ Resting(scan[i].pc)
  /\ UNCHANGED languageFiles
  /\ scan' = [scan EXCEPT ![i] = [ScanIdle EXCEPT !.pc = "pathExists",
                                                  !.before = languageFiles]]
  /\ UNCHANGED <<disk, lastCall, nav, selection, clipboard, table, decorations>>
  /\ UNCHANGED storeVars

\* scanLanguageFiles called on its own (activation, configuration change):
\* the registry is cleared and the call runs up to fs.pathExists
ScanStart(i) ==
  /\ Resting(scan[i].pc)
  /\ languageFiles' = EmptyMap
  /\ scan' = [scan EXCEPT ![i] = [ScanIdle EXCEPT !.pc = "pathExists",
                                                  !.before = languageFiles]]
  /\ UNCHANGED <<disk, lastCall, nav, selection, clipboard, table, decorations>>
  /\ UNCHANGED storeVars

\* a version that shows an error message for a missing directory
ScanPathExistsReports(i, exists) ==
  /\ scan[i].pc = "pathExists"
  /\ scan' = [scan EXCEPT ![i].pc = IF exists THEN "readdir" ELSE "done",
                          ![i].exists = exists,
                          ![i].msg = IF exists THEN "none" ELSE "error"]
  /\ UNCHANGED <<disk, lastCall, languageFiles, nav, selection, clipboard, table, decorations>>
  /\ UNCHANGED storeVars

\* fs.pathExists of the i18n directory resolves; a missing directory ends
\* the scan
ScanPathExists(i, exists) ==
  /\ scan[i].pc = "pathExists"
  /\ scan' = [scan EXCEPT ![i].pc = IF exists THEN "readdir" ELSE "done",
                          ![i].exists = exists]
  /\ UNCHANGED <<disk, lastCall, languageFiles, nav, selection, clipboard, table, decorations>>
  /\ UNCHANGED storeVars

\* fs.readdir resolves with the names; the loop fills the registry and the
\* scan returns
ScanReaddir(i, files) ==
  /\ scan[i].pc = "readdir"
  /\ languageFiles' = ScanLoop(languageFiles, files)
  /\ scan' = [scan EXCEPT ![i].pc = "done", ![i].files = files,
                          ![i].listed = "resolved"]
  /\ UNCHANGED <<disk, lastCall, nav, selection, clipboard, table, decorations>>
  /\ UNCHANGED storeVars

\* fs.readdir is rejected: the catch shows the error and the scan returns
ScanReaddirRejected(i) ==
  /\ scan[i].pc = "readdir"
  /\ scan' = [scan EXCEPT ![i].pc = "done", ![i].listed = "rejected",
                          ![i].msg = "error"]
  /\ UNCHANGED <<disk, lastCall, languageFiles, nav, selection, clipboard, table, decorations>>
  /\ UNCHANGED storeVars

NoSelection == [doc |-> <<>>, pos |-> [line |-> 0, character |-> 0]]

NavIdle ==
  [pc |-> "idle", doc |-> <<>>, keyPath |-> <<>>, lang |-> <<>>,
   targetFilePath |-> <<>>, found |-> -1, prompted |-> FALSE,
   answer |-> "none", asked |-> FALSE, input |-> Undefined,
   sourceContent |-> <<>>, sourceValue |-> Undefined, targetJson |-> Undefined,
   wrote |-> FALSE, newPosition |-> -1, notified |-> FALSE, msg |-> "none",
   disk0 |-> <<>>, text0 |-> <<>>, failure |-> "none",
   targetContent |-> <<>>, registry0 |-> EmptyMap, registry1 |-> EmptyMap]

\* lines 132-137 and the call of openTextDocument
Lookup(rec, registry) ==
  IF rec.lang \in DOMAIN registry
    THEN [rec EXCEPT !.pc = "open", !.targetFilePath = registry[rec.lang],
                     !.registry1 = registry]
    ELSE [rec EXCEPT !.pc = "done", !.msg = "warning", !.registry1 = registry]

\* navigateToTranslation with the registry filled before the checks of the
\* key path and of the source language
NavStartScansFirst(n, doc, posLine, posCharacter, lang) ==
  /\ Resting(nav[n].pc)
  /\ disk[doc].exists
  /\ LET keyPath == getKeyPathAtPosition(disk[doc].text, posLine, posCharacter)
         rec == [NavIdle EXCEPT !.doc = doc, !.lang = lang, !.disk0 = disk,
                                !.registry0 = languageFiles,
                                !.registry1 = languageFiles,
                                !.keyPath = IF keyPath = Undefined THEN <<>>
                                            ELSE keyPath.s]
     IN  IF DOMAIN languageFiles = {}
           THEN /\ languageFiles' = EmptyMap
                /\ nav' = [nav EXCEPT ![n] = [rec EXCEPT !.pc = "scanPathExists"]]
         ELSE IF ~Truthy(keyPath)
           THEN /\ nav' = [nav EXCEPT ![n] = [rec EXCEPT !.pc = "done",
                                                         !.msg = "warning"]]
                /\ UNCHANGED languageFiles
         ELSE IF getLanguageCodeFromPath(doc) = Undefined
           THEN /\ nav' = [nav EXCEPT ![n] = [rec EXCEPT !.pc = "done",
                                                         !.msg = "warning"]]
                /\ UNCHANGED languageFiles
         ELSE /\ nav' = [nav EXCEPT ![n] = Lookup(rec, languageFiles)]
              /\ UNCHANGED languageFiles
  /\ UNCHANGED <<disk, lastCall, selection, clipboard, scan, table, decorations>>
  /\ UNCHANGED storeVars

\* navigateToTranslation with a scan before every target lookup, whether
\* the registry is empty or not
NavStartAlwaysScans(n, doc, posLine, posCharacter, lang) ==
  /\ Resting(nav[n].pc)
  /\ disk[doc].exists
  /\ LET keyPath == getKeyPathAtPosition(disk[doc].text, posLine, posCharacter)
         rec == [NavIdle EXCEPT !.doc = doc, !.lang = lang, !.disk0 = disk,
                                !.registry0 = languageFiles,
                                !.registry1 = languageFiles,
                                !.keyPath = IF keyPath = Undefined THEN <<>>
                                            ELSE keyPath.s]
     IN  IF ~Truthy(keyPath)
           THEN /\ nav' = [nav EXCEPT ![n] = [rec EXCEPT !.pc = "done",
                                                         !.msg = "warning"]]
                /\ UNCHANGED languageFiles
         ELSE IF getLanguageCodeFromPath(doc) = Undefined
           THEN /\ nav' = [nav EXCEPT ![n] = [rec EXCEPT !.pc = "done",
                                                         !.msg = "warning"]]
                /\ UNCHANGED languageFiles
         ELSE IF TRUE
           THEN \* scanLanguageFiles runs up to fs.pathExists
                /\ languageFiles' = EmptyMap
                /\ nav' = [nav EXCEPT ![n] = [rec EXCEPT !.pc = "scanPathExists"]]
         ELSE /\ nav' = [nav EXCEPT ![n] = Lookup(rec, languageFiles)]
              /\ UNCHANGED languageFiles
  /\ UNCHANGED <<disk, lastCall, selection, clipboard, scan, table, decorations>>
  /\ UNCHANGED storeVars

\* the first part of navigateToTranslation, up to its first await
NavStart(n, doc, posLine, posCharacter, lang) ==
  /\ Resting(nav[n].pc)
  /\ disk[doc].exists
  /\ LET keyPath == getKeyPathAtPosition(disk[doc].text, posLine, posCharacter)
         rec == [NavIdle EXCEPT !.doc = doc, !.lang = lang, !.disk0 = disk,
                                !.registry0 = languageFiles,
                                !.registry1 = languageFiles,
                                !.keyPath = IF keyPath = Undefined THEN <<>>
                                            ELSE keyPath.s]
     IN  IF ~Truthy(keyPath)
           THEN /\ nav' = [nav EXCEPT ![n] = [rec EXCEPT !.pc = "done",
                                                         !.msg = "warning"]]
                /\ UNCHANGED languageFiles
         ELSE IF getLanguageCodeFromPath(doc) = Undefined
           THEN /\ nav' = [nav EXCEPT ![n] = [rec EXCEPT !.pc = "done",
                                                         !.msg = "warning"]]
                /\ UNCHANGED languageFiles
         ELSE IF DOMAIN languageFiles = {}
           THEN \* scanLanguageFiles runs up to fs.pathExists
                /\ languageFiles' = EmptyMap
                /\ nav' = [nav EXCEPT ![n] = [rec EXCEPT !.pc = "scanPathExists"]]
         ELSE /\ nav' = [nav EXCEPT ![n] = Lookup(rec, languageFiles)]
              /\ UNCHANGED languageFiles
  /\ UNCHANGED <<disk, lastCall, selection, clipboard, scan, table, decorations>>
  /\ UNCHANGED storeVars

\* fs.pathExists of the i18n directory resolves
NavScanPathExists(n) ==
  /\ nav[n].pc = "scanPathExists"
  /\ nav' = [nav EXCEPT ![n].pc = "scanReaddir"]
  /\ UNCHANGED <<disk, lastCall, selection, languageFiles, clipboard, scan, table, decorations>>
  /\ UNCHANGED storeVars

\* fs.readdir resolves, the registry is filled, the scan returns and the
\* navigation looks the target language up
NavScanReaddir(n, files) ==
  /\ nav[n].pc = "scanReaddir"
  /\ languageFiles' = ScanLoop(languageFiles, files)
  /\ nav' = [nav EXCEPT ![n] = Lookup(nav[n], languageFiles')]
  /\ UNCHANGED <<disk, lastCall, selection, clipboard, scan, table, decorations>>
  /\ UNCHANGED storeVars

\* openTextDocument and showTextDocument resolve; the search of the key
NavOpen(n) ==
  /\ nav[n].pc = "open"
  /\ LET f == nav[n].targetFilePath
         text == disk[f].text
         position == findPositionForKey(text, Split(nav[n].keyPath, "."))
     IN  IF ~disk[f].exists
           THEN /\ nav' = [nav EXCEPT ![n].pc = "done", ![n].msg = "error",
                                      ![n].failure = "openTextDocument"]
                /\ UNCHANGED selection
         ELSE IF position # -1
           THEN /\ selection' = [doc |-> f, pos |-> PositionAt(text, position)]
                /\ nav' = [nav EXCEPT ![n].pc = "done", ![n].found = position,
                                      ![n].text0 = text]
         ELSE /\ nav' = [nav EXCEPT ![n].pc = "quickPick", ![n].prompted = TRUE,
                                    ![n].text0 = text]
              /\ UNCHANGED selection
  /\ UNCHANGED <<disk, lastCall, languageFiles, clipboard, scan, table, decorations>>
  /\ UNCHANGED storeVars

\* showQuickPick resolves; on 'Yes' createMissingTranslation runs up to the
\* first fs.readFile
NavQuickPick(n, answer) ==
  /\ nav[n].pc = "quickPick"
  /\ IF answer # "Yes"
       THEN nav' = [nav EXCEPT ![n].pc = "done", ![n].answer = answer]
     ELSE IF nav[n].lang \notin DOMAIN languageFiles
       THEN nav' = [nav EXCEPT ![n].pc = "done", ![n].answer = answer,
                               ![n].msg = "error"]
     ELSE nav' = [nav EXCEPT ![n].pc = "readSource", ![n].answer = answer,
                             ![n].targetFilePath = languageFiles[nav[n].lang]]
  /\ UNCHANGED <<disk, lastCall, selection, languageFiles, clipboard, scan, table, decorations>>
  /\ UNCHANGED storeVars

\* fs.readFile of the source file resolves
NavReadSource(n) ==
  /\ nav[n].pc = "readSource"
  /\ IF disk[nav[n].doc].exists
       THEN nav' = [nav EXCEPT ![n].pc = "readTarget",
                               ![n].sourceContent = disk[nav[n].doc].text]
       ELSE nav' = [nav EXCEPT ![n].pc = "done", ![n].msg = "error",
                               ![n].failure = "readFile source"]
  /\ UNCHANGED <<disk, lastCall, selection, languageFiles, clipboard, scan, table, decorations>>
  /\ UNCHANGED storeVars

\* the loop over keyParts on the source tree: it stops at the first missing
\* part and keeps the object reached so far
RECURSIVE WalkSource(_, _)
WalkSource(currentSourceObj, keyParts) ==
  IF keyParts = <<>> THEN currentSourceObj
  ELSE IF Get(currentSourceObj, Head(keyParts)) = Undefined THEN currentSourceObj
  ELSE WalkSource(Get(currentSourceObj, Head(keyParts)), Tail(keyParts))

\* sourceValue: Undefined stands for null
SourceValue(sourceJson, keyParts) ==
  LET currentSourceObj == WalkSource(sourceJson, keyParts)
  IN  IF TypeOf(currentSourceObj) # "string" THEN Undefined ELSE currentSourceObj

\* fs.readFile of the target file resolves; both files are parsed and the
\* source value is looked up; the input box is shown
NavReadTarget(n) ==
  /\ nav[n].pc = "readTarget"
  /\ LET f == nav[n].targetFilePath
         sourceJson == JSONparse(nav[n].sourceContent)
         targetJson == JSONparse(disk[f].text)
     IN  IF ~disk[f].exists \/ sourceJson = SyntaxError \/ targetJson = SyntaxError
           THEN nav' = [nav EXCEPT
                          ![n].pc = "done", ![n].msg = "error",
                          ![n].failure =
                             IF ~disk[f].exists THEN "readFile target"
                             ELSE IF sourceJson = SyntaxError
                               THEN "JSON.parse source"
                             ELSE "JSON.parse target"]
           ELSE nav' = [nav EXCEPT
                          ![n].pc = "inputBox",
                          ![n].asked = TRUE,
                          ![n].targetContent = disk[f].text,
                          ![n].targetJson = targetJson,
                          ![n].sourceValue =
                             SourceValue(sourceJson, Split(nav[n].keyPath, "."))]
  /\ UNCHANGED <<disk, lastCall, selection, languageFiles, clipboard, scan, table, decorations>>
  /\ UNCHANGED storeVars

ValueName == <<"_", "v", "a", "l", "u", "e">>

\* a version that descends into the created object without attaching it
RECURSIVE CreateWalkDetached(_, _, _)
CreateWalkDetached(currentTargetObj, keyParts, value) ==
  LET part == Head(keyParts)
      child == Get(currentTargetObj, part)
  IN  IF Len(keyParts) = 1
        THEN JObj(SetProp(currentTargetObj.e, part, JStr(value)))
      ELSE IF ~Truthy(child)
        THEN currentTargetObj
      ELSE IF TypeOf(child) # "object"
        THEN JObj(SetProp(currentTargetObj.e, part,
               CreateWalkDetached(JObj(<<[k |-> ValueName, v |-> child]>>),
                                  Tail(keyParts), value)))
      ELSE JObj(SetProp(currentTargetObj.e, part,
                        CreateWalkDetached(child, Tail(keyParts), value)))

\* the walk over keyParts on the target tree: missing or falsy intermediate
\* parts become {}, a truthy non-object becomes {_value: old}; then the leaf
\* is assigned
RECURSIVE CreateWalk(_, _, _)
CreateWalk(currentTargetObj, keyParts, value) ==
  LET part == Head(keyParts)
      child == Get(currentTargetObj, part)
  IN  IF Len(keyParts) = 1
        THEN JObj(SetProp(currentTargetObj.e, part, JStr(value)))
      ELSE IF ~Truthy(child)
        THEN JObj(SetProp(currentTargetObj.e, part,
                          CreateWalk(JObj(<<>>), Tail(keyParts), value)))
      ELSE IF TypeOf(child) # "object"
        THEN JObj(SetProp(currentTargetObj.e, part,
               CreateWalk(JObj(<<[k |-> ValueName, v |-> child]>>),
                          Tail(keyParts), value)))
      ELSE JObj(SetProp(currentTargetObj.e, part,
                        CreateWalk(child, Tail(keyParts), value)))

\* a version that takes only a dismissed input box for a cancellation
NavInputBoxKeepsEmpty(n, input) ==
  /\ nav[n].pc = "inputBox"
  /\ IF input = Undefined
       THEN nav' = [nav EXCEPT ![n].pc = "done", ![n].input = input]
       ELSE nav' = [nav EXCEPT
                      ![n].pc = "writeFile",
                      ![n].input = input,
                      ![n].targetJson =
                         CreateWalk(nav[n].targetJson,
                                    Split(nav[n].keyPath, "."), input.s)]
  /\ UNCHANGED <<disk, lastCall, selection, languageFiles, clipboard, scan, table, decorations>>
  /\ UNCHANGED storeVars

\* showInputBox resolves; a falsy input returns, any other is put into the
\* tree, which goes to fs.writeFile
NavInputBox(n, input) ==
  /\ nav[n].pc = "inputBox"
  /\ IF ~Truthy(input)
       THEN nav' = [nav EXCEPT ![n].pc = "done", ![n].input = input]
       ELSE nav' = [nav EXCEPT
                      ![n].pc = "writeFile",
                      ![n].input = input,
                      ![n].targetJson =
                         CreateWalk(nav[n].targetJson,
                                    Split(nav[n].keyPath, "."), input.s)]
  /\ UNCHANGED <<disk, lastCall, selection, languageFiles, clipboard, scan, table, decorations>>
  /\ UNCHANGED storeVars

\* a version that reads the target again and puts the key into the tree
\* the file holds at the time of the write
NavWriteFileOnCurrent(n) ==
  /\ nav[n].pc = "writeFile"
  /\ disk' = [disk EXCEPT ![nav[n].targetFilePath] =
                FileOf(JSONstringify(
                         CreateWalk(JSONparse(disk[nav[n].targetFilePath].text),
                                    Split(nav[n].keyPath, "."), nav[n].input.s),
                         Gap2))]
  /\ nav' = [nav EXCEPT ![n].pc = "reopen", ![n].wrote = TRUE]
  /\ UNCHANGED <<lastCall, selection, languageFiles, clipboard, scan, table, decorations>>
  /\ UNCHANGED storeVars

\* fs.writeFile resolves
NavWriteFile(n) ==
  /\ nav[n].pc = "writeFile"
  /\ disk' = [disk EXCEPT ![nav[n].targetFilePath] =
                FileOf(JSONstringify(nav[n].targetJson, Gap2))]
  /\ nav' = [nav EXCEPT ![n].pc = "reopen", ![n].wrote = TRUE]
  /\ UNCHANGED <<lastCall, selection, languageFiles, clipboard, scan, table, decorations>>
  /\ UNCHANGED storeVars

\* a version in which the rejection leaves createMissingTranslation and
\* navigateToTranslation
NavWriteFileRejectedEscapes(n, emptied) ==
  /\ nav[n].pc = "writeFile"
  /\ disk' = IF emptied
               THEN [disk EXCEPT ![nav[n].targetFilePath] = FileOf(<<>>)]
               ELSE disk
  /\ nav' = [nav EXCEPT ![n].pc = "rejected", ![n].failure = "writeFile"]
  /\ UNCHANGED <<lastCall, selection, languageFiles, clipboard, scan, table, decorations>>
  /\ UNCHANGED storeVars

\* fs.writeFile is rejected, before the file was opened or after the open
\* emptied it: the catch of createMissingTranslation shows the error
NavWriteFileRejected(n, emptied) ==
  /\ nav[n].pc = "writeFile"
  /\ disk' = IF emptied
               THEN [disk EXCEPT ![nav[n].targetFilePath] = FileOf(<<>>)]
               ELSE disk
  /\ nav' = [nav EXCEPT ![n].pc = "done", ![n].msg = "error",
                        ![n].failure = "writeFile"]
  /\ UNCHANGED <<lastCall, selection, languageFiles, clipboard, scan, table, decorations>>
  /\ UNCHANGED storeVars

\* fs.readdir of the scan made by the navigation is rejected: the scan shows
\* the error and returns the empty registry, and the lookup follows
NavScanReaddirRejected(n) ==
  /\ nav[n].pc = "scanReaddir"
  /\ nav' = [nav EXCEPT ![n] = Lookup(nav[n], languageFiles)]
  /\ UNCHANGED <<disk, lastCall, selection, languageFiles, clipboard, scan, table, decorations>>
  /\ UNCHANGED storeVars

\* the document is reverted and shown again; the search is run on its text
NavReopen(n) ==
  /\ nav[n].pc = "reopen"
  /\ LET f == nav[n].targetFilePath
         text == disk[f].text
         newPosition == findPositionForKey(text, Split(nav[n].keyPath, "."))
     IN  IF ~disk[f].exists
           THEN /\ nav' = [nav EXCEPT ![n].pc = "done", ![n].msg = "error",
                                      ![n].failure = "openTextDocument"]
                /\ UNCHANGED selection
         ELSE IF newPosition # -1
           THEN /\ selection' = [doc |-> f, pos |-> PositionAt(text, newPosition)]
                /\ nav' = [nav EXCEPT ![n].pc = "done",
                                      ![n].newPosition = newPosition,
                                      ![n].notified = TRUE]
         ELSE /\ nav' = [nav EXCEPT ![n].pc = "done"]
              /\ UNCHANGED selection
  /\ UNCHANGED <<disk, lastCall, languageFiles, clipboard, scan, table, decorations>>
  /\ UNCHANGED storeVars

(***************************************************************************)
(* TableViewService.saveTranslationChanges, for a message of the table     *)
(* view that carries one changed cell: changes = {langCode: {key: value}}  *)
(***************************************************************************)

TableIdle ==
  [pc |-> "idle", langCode |-> <<>>, key |-> <<>>, value |-> <<>>,
   filePath |-> <<>>, content |-> Undefined, saved |-> FALSE, msg |-> "none"]

\* setTranslationValue: an intermediate part that is undefined or not an
\* object is replaced by {}; the last part is assigned
RECURSIVE setTranslationValue(_, _, _)
setTranslationValue(current, keyParts, value) ==
  LET part == Head(keyParts)
      child == Get(current, part)
  IN  IF Len(keyParts) = 1
        THEN JObj(SetProp(current.e, part, JStr(value)))
      ELSE IF child = Undefined \/ TypeOf(child) # "object"
        THEN JObj(SetProp(current.e, part,
                          setTranslationValue(JObj(<<>>), Tail(keyParts), value)))
      ELSE JObj(SetProp(current.e, part,
                        setTranslationValue(child, Tail(keyParts), value)))

\* the message arrives; the file of the language is looked up in the registry
\* and, if there is none, the loop ends and success is reported
TableSaveStart(langCode, key, value) ==
  /\ Resting(table.pc)
  /\ LET rec == [TableIdle EXCEPT !.langCode = langCode, !.key = key,
                                  !.value = value]
     IN  IF langCode \in DOMAIN languageFiles
           THEN table' = [rec EXCEPT !.pc = "openTextDocument",
                                     !.filePath = languageFiles[langCode]]
           ELSE table' = [rec EXCEPT !.pc = "done", !.msg = "info"]
  /\ UNCHANGED <<disk, lastCall, languageFiles, nav, selection, clipboard, scan, decorations>>
  /\ UNCHANGED storeVars

\* openTextDocument resolves; the text is parsed and the change applied to
\* the parsed tree; a missing file or malformed text ends in the catch
TableOpenTextDocument ==
  /\ table.pc = "openTextDocument"
  /\ LET parsed == JSONparse(disk[table.filePath].text)
     IN  IF ~disk[table.filePath].exists \/ parsed = SyntaxError
              \/ TypeOf(parsed) # "object"
           THEN table' = [table EXCEPT !.pc = "done", !.msg = "error"]
           ELSE table' = [table EXCEPT
                            !.pc = "applyEdit",
                            !.content = setTranslationValue(
                                          parsed, Split(table.key, "."),
                                          table.value)]
  /\ UNCHANGED <<disk, lastCall, languageFiles, nav, selection, clipboard, scan, decorations>>
  /\ UNCHANGED storeVars

\* workspace.applyEdit resolves: the open document holds the new text
TableApplyEdit ==
  /\ table.pc = "applyEdit"
  /\ table' = [table EXCEPT !.pc = "save"]
  /\ UNCHANGED <<disk, lastCall, languageFiles, nav, selection, clipboard, scan, decorations>>
  /\ UNCHANGED storeVars

\* document.save resolves: the file holds the new text; success is reported
TableDocumentSave ==
  /\ table.pc = "save"
  /\ disk' = [disk EXCEPT ![table.filePath] =
                FileOf(JSONstringify(table.content, Gap2))]
  /\ table' = [table EXCEPT !.pc = "done", !.saved = TRUE, !.msg = "info"]
  /\ UNCHANGED <<lastCall, languageFiles, nav, selection, clipboard, scan, decorations>>
  /\ UNCHANGED storeVars

(***************************************************************************)
(* The dictionary store on its own: one operation at a time                *)
(***************************************************************************)

StoreTexts ==
  {JSONstringify(t, Gap2) : t \in Trees(Segs, StoreVals, MaxStoreKeys, MaxDepth)}

StoreQuiet == Resting(ad.pc) /\ \A i \in LoadIds : Resting(ld[i].pc)

InitStore ==
  /\ disk \in {[f \in Files |-> IF f = EN THEN c ELSE NoFile] :
                 c \in {FileOf(t) : t \in StoreTexts \cup {Malformed}} \cup {NoFile}}
  /\ translations = JObj(<<>>)
  /\ translationsLoaded = FALSE
  /\ ld = [i \in LoadIds |-> LdIdle]
  /\ ad = AdIdle
  /\ adds = 0
  /\ lastCall = NoCall
  /\ languageFiles = EmptyMap
  /\ nav = [n \in NavIds |-> NavIdle]
  /\ selection = NoSelection
  /\ clipboard = Undefined
  /\ scan = [i \in ScanIds |-> ScanIdle]
  /\ table = TableIdle
  /\ decorations = <<>>

NextStore ==
  \/ \E i \in LoadIds : StoreQuiet /\ LoadStart(i)
  \/ \E i \in LoadIds : LoadPathExists(i)
  \/ \E i \in LoadIds : LoadReadFile(i)
  \/ \E k \in PathsOver(QuerySegs, MaxPathLen) : StoreQuiet /\ GetTranslationValue(k)
  \/ \E k \in PathsOver(Segs, MaxPathLen), v \in AddVals : StoreQuiet /\ AddStart(k, v)
  \/ AddPathExists
  \/ AddReadFile
  \/ \E a \in Answers : AddConfirm(a)
  \/ \E o \in WriteOutcomes : AddWriteFile(o)

SpecStore == InitStore /\ [][NextStore]_vars

(***************************************************************************)
(* Properties of the dictionary store                                      *)
(***************************************************************************)

\* the node a dotted path addresses in a dictionary tree (section 3 of the
\* design: a mapping from key to leaf or namespace), Undefined if none
RECURSIVE NodeAt(_, _)
NodeAt(v, parts) ==
  IF parts = <<>> THEN v
  ELSE IF v.t = "object" /\ HasOwn(v.e, Head(parts))
    THEN NodeAt(v.e[OwnIndex(v.e, Head(parts))].v, Tail(parts))
  ELSE Undefined

LeafAt(tree, key) ==
  LET n == NodeAt(tree, Split(key, "."))
  IN  IF n.t = "string" THEN n ELSE Undefined

Resolved == lastCall.fn = "getTranslationValue"

\* C1: whenever the key path of a getTranslationValue call addresses a
\* string leaf of the in-memory tree, the call returns exactly that leaf,
\* and an empty leaf yields the empty string, not undefined
C1_ResolveLeaf ==
  (Resolved /\ LeafAt(lastCall.tree, lastCall.key) # Undefined)
    => /\ lastCall.result = LeafAt(lastCall.tree, lastCall.key)
       /\ lastCall.result # Undefined

\* a call that resolved an empty-string leaf
C1_Witness ==
  /\ Resolved
  /\ LeafAt(lastCall.tree, lastCall.key) = JStr(<<>>)
  /\ lastCall.result = JStr(<<>>)

\* C2: whenever the key path of a getTranslationValue call does not
\* address a string leaf (missing segment, namespace, or below a leaf), the
\* call returns undefined
C2_ResolveMiss ==
  (Resolved /\ LeafAt(lastCall.tree, lastCall.key) = Undefined)
    => lastCall.result = Undefined

\* C3: once addTranslation has returned true, the key resolves to the value
\* in the in-memory tree, the dictionary file parses to a tree holding the
\* value at the key's path, and a getTranslationValue of the key after a
\* fresh loadTranslations returns the value
C3_AddRoundTrip ==
  (ad.pc = "done" /\ ad.result = "true")
    => /\ getTranslationValue(translations, ad.key) = JStr(ad.value)
       /\ disk[i18nFilePath].exists
       /\ LeafAt(JSONparse(disk[i18nFilePath].text), ad.key) = JStr(ad.value)
       /\ (Resolved /\ lastCall.key = ad.key /\ lastCall.reloaded)
            => lastCall.result = JStr(ad.value)

\* an added nested key with a value that needs escaping, read back after a
\* reload
C3_Witness ==
  /\ ad.pc = "done" /\ ad.result = "true"
  /\ Len(Split(ad.key, ".")) > 1
  /\ ad.value = <<"\\", "\"">>
  /\ Resolved /\ lastCall.key = ad.key /\ lastCall.reloaded
  /\ lastCall.result = JStr(ad.value)

\* no loadTranslations was called since the last addTranslation was
NoLoadSinceAdd ==
  \A i \in LoadIds : ld[i].pc = "idle" \/ ld[i].epoch < adds

\* addTranslation has returned and the store was not reloaded since
AddReturned == ad.pc = "done" /\ NoLoadSinceAdd

\* the dictionary file held well-formed JSON when addTranslation was called
FileParsedBefore ==
  /\ ad.before.disk[i18nFilePath].exists
  /\ JSONparse(ad.before.disk[i18nFilePath].text) # SyntaxError

FileTreeBefore == JSONparse(ad.before.disk[i18nFilePath].text)

\* a proper prefix of the key of the call addressed a string leaf of the file
IntermediateLeaf ==
  LET parts == Split(ad.key, ".")
  IN  \E i \in 1..(Len(parts) - 1) :
        NodeAt(FileTreeBefore, SubSeq(parts, 1, i)).t = "string"

\* C16: an addTranslation whose key passes through a segment that holds a
\* string leaf, whatever the leaf's value, reports an error, returns false,
\* and leaves the dictionary file and the in-memory tree as they were
C16_IntermediateLeafRefused ==
  (AddReturned /\ FileParsedBefore /\ IntermediateLeaf)
    => /\ ad.result = "false"
       /\ ad.msg = "error"
       /\ disk = ad.before.disk
       /\ translations = ad.before.translations

\* the full key of the call addressed a value of the file, leaf or namespace
TerminalHeld ==
  NodeAt(FileTreeBefore, Split(ad.key, ".")) # Undefined

\* C17: when the terminal key of an addTranslation already holds a value, the
\* dictionary file changes only after the prompt was answered 'Yes'; after
\* any other answer the call returns false and the file and the in-memory
\* tree are those of before the call
C17_OverwriteNeedsYes ==
  (ad.pc # "idle" /\ FileParsedBefore /\ TerminalHeld)
    => /\ (disk # ad.before.disk \/ ad.pc = "writeFile") => ad.answer = "Yes"
       /\ (AddReturned /\ ad.answer # "Yes")
            => /\ ad.prompted
               /\ ad.answer \in Answers
               /\ ad.result = "false"
               /\ disk = ad.before.disk
               /\ translations = ad.before.translations

\* an addTranslation on a key that holds the empty string, whose prompt was
\* dismissed
C17_Witness ==
  /\ AddReturned /\ FileParsedBefore
  /\ NodeAt(FileTreeBefore, Split(ad.key, ".")) = JStr(<<>>)
  /\ ad.prompted /\ ad.answer = "dismissed"
  /\ ad.result = "false"

\* C18: addTranslation replaces the in-memory tree only once fs.writeFile
\* has resolved: while the call is running the tree and the loaded flag are
\* those of before the call, a changed tree means a resolved write whose text
\* is on disk, and after a rejected write the call has returned false with
\* the tree and the loaded flag of before the call
C18_WriteThrough ==
  /\ ad.pc \notin {"idle", "done"}
       => /\ translations = ad.before.translations
          /\ translationsLoaded = ad.before.loaded
  /\ (AddReturned /\ ad.wrote # "resolved")
       => /\ translations = ad.before.translations
          /\ translationsLoaded = ad.before.loaded
  /\ (AddReturned /\ ad.wrote \in WriteOutcomes \ {"resolved"})
       => /\ ad.result = "false"
          /\ ad.msg = "error"
  /\ (AddReturned /\ ad.wrote = "resolved")
       => /\ ad.result = "true"
          /\ translations = ad.tr
          /\ disk[i18nFilePath] = FileOf(JSONstringify(translations, Gap2))

\* a write that was rejected after the file was opened, on a store that was
\* loaded, for a tree that differs from the one in memory
C18_Witness ==
  /\ AddReturned /\ ad.wrote = "rejectedAfterOpen"
  /\ ad.before.loaded
  /\ ad.tr # translations
  /\ ad.result = "false"

(***************************************************************************)
(* The key-path resolver on its own: a document and calls at positions     *)
(***************************************************************************)

MaxDocKeys == 3

MaxDocDepth == 3

\* keys of the documents: an identifier, and a key that holds a ':'
DocSegs == {<<"a">>, <<"a", ":", "b">>}

\* leaf values of the documents: one holds a ':', one an escaped quote
DocVals == {<<":">>, <<"\"", "x">>}

\* indentation units of the documents: one space, two spaces, a tab
Gaps == {<<" ">>, Gap2, <<"\t">>}

\* a call of getKeyPathAtPosition on the en.json document
GetKeyPathAtPosition(posLine, posCharacter) ==
  /\ disk[EN].exists
  /\ lastCall' = [NoCall EXCEPT
                    !.fn = "getKeyPathAtPosition",
                    !.text = disk[EN].text,
                    !.pos = [line |-> posLine, character |-> posCharacter],
                    !.result = getKeyPathAtPosition(disk[EN].text, posLine,
                                                    posCharacter)]
  /\ UNCHANGED disk
  /\ UNCHANGED storeVars
  /\ UNCHANGED navVars

\* the command i18n-studio.copyJsonKeyPath with the en.json document in the
\* active editor and the cursor at the position
CopyJsonKeyPath(languageId, posLine, posCharacter) ==
  /\ disk[EN].exists
  /\ LET keyPath == getKeyPathAtPosition(disk[EN].text, posLine, posCharacter)
     IN  /\ lastCall' = [NoCall EXCEPT
                           !.fn = "copyJsonKeyPath",
                           !.languageId = languageId,
                           !.text = disk[EN].text,
                           !.pos = [line |-> posLine, character |-> posCharacter],
                           !.result = IF languageId # JsonId THEN Undefined
                                      ELSE keyPath]
         /\ clipboard' = IF languageId = JsonId /\ Truthy(keyPath)
                            THEN keyPath
                            ELSE clipboard
  /\ UNCHANGED <<disk, languageFiles, nav, selection, scan, table, decorations>>
  /\ UNCHANGED storeVars

DocTexts ==
  {JSONstringify(t, g) : t \in Trees(DocSegs, DocVals, MaxDocKeys, MaxDocDepth),
                         g \in Gaps}

\* the positions tried on a document: every line and one past the last,
\* every column of the line and two past its end
DocLines(text) == 0..Len(LinesOf(text))

DocColumns(text, posLine) ==
  IF posLine < Len(LinesOf(text))
    THEN 0..(Len(LinesOf(text)[posLine + 1]) + 1)
    ELSE {0}

InitResolver ==
  /\ disk \in {[f \in Files |-> IF f = EN THEN FileOf(t) ELSE NoFile] :
                 t \in DocTexts}
  /\ translations = JObj(<<>>)
  /\ translationsLoaded = FALSE
  /\ ld = [i \in LoadIds |-> LdIdle]
  /\ ad = AdIdle
  /\ adds = 0
  /\ lastCall = NoCall
  /\ languageFiles = EmptyMap
  /\ nav = [n \in NavIds |-> NavIdle]
  /\ selection = NoSelection
  /\ clipboard = Undefined
  /\ scan = [i \in ScanIds |-> ScanIdle]
  /\ table = TableIdle
  /\ decorations = <<>>

\* one call per behaviour
NextResolver ==
  /\ lastCall = NoCall
  /\ \E l \in DocLines(disk[EN].text) :
       \E c \in DocColumns(disk[EN].text, l) :
         \/ GetKeyPathAtPosition(l, c)
         \/ \E languageId \in LanguageIds : CopyJsonKeyPath(languageId, l, c)

SpecResolver == InitResolver /\ [][NextResolver]_vars

(***************************************************************************)
(* Properties of the key-path resolver                                     *)
(***************************************************************************)

PathJoin(prefix, k) == IF prefix = <<>> THEN k ELSE prefix \o <<".">> \o k

\* for each line of the rendering of the members e (one key per line, a
\* non-empty namespace closed on a line of its own): the path in the tree of
\* the key on that line, Undefined on a closing line
RECURSIVE MemberPaths(_, _)
MemberPaths(e, prefix) ==
  IF e = <<>> THEN <<>>
  ELSE LET p == PathJoin(prefix, e[1].k)
           own == IF e[1].v.t = "object" /\ e[1].v.e # <<>>
                    THEN <<JStr(p)>> \o MemberPaths(e[1].v.e, p) \o <<Undefined>>
                    ELSE <<JStr(p)>>
       IN  own \o MemberPaths(Tail(e), prefix)

LinePaths(tree) ==
  IF tree.e = <<>> THEN <<Undefined>>
  ELSE <<Undefined>> \o MemberPaths(tree.e, <<>>) \o <<Undefined>>

Located == lastCall.fn = "getKeyPathAtPosition"

CallLineInDoc == lastCall.pos.line < Len(LinesOf(lastCall.text))

CallLine == LinesOf(lastCall.text)[lastCall.pos.line + 1]

\* C9: on a valid document of string leaves laid out one key per line with
\* a fixed indentation unit, a call on a key line with the cursor at or
\* before the line's first ':' returns the path at which that key sits in
\* the parsed tree
C9_KeyPathOfKeyLine ==
  (/\ Located
   /\ CallLineInDoc
   /\ LinePaths(JSONparse(lastCall.text))[lastCall.pos.line + 1] # Undefined
   /\ lastCall.pos.character <= IndexOf(CallLine, ":"))
    => lastCall.result = LinePaths(JSONparse(lastCall.text))[lastCall.pos.line + 1]

Copied == lastCall.fn = "copyJsonKeyPath" /\ lastCall.languageId = JsonId

\* C11: the copy command invoked in a JSON document with the cursor anywhere
\* on a key line, on the key or on the value, leaves the dotted path of the
\* line's key on the clipboard
C11_CopyKeyPath ==
  (/\ Copied
   /\ CallLineInDoc
   /\ LinePaths(JSONparse(lastCall.text))[lastCall.pos.line + 1] # Undefined
   /\ lastCall.pos.character <= Len(CallLine))
    => clipboard = LinePaths(JSONparse(lastCall.text))[lastCall.pos.line + 1]

\* C10: a call on a line without ':' or with the cursor strictly after the
\* line's first ':' returns undefined
C10_AbsentOffKey ==
  (/\ Located
   /\ CallLineInDoc
   /\ \/ IndexOf(CallLine, ":") = -1
      \/ lastCall.pos.character > IndexOf(CallLine, ":"))
    => lastCall.result = Undefined

\* a call on the value of a key line
C10_Witness ==
  /\ Located
  /\ CallLineInDoc
  /\ IndexOf(CallLine, ":") # -1
  /\ lastCall.pos.character = IndexOf(CallLine, ":") + 1
  /\ lastCall.result = Undefined


(***************************************************************************)
(* Navigation between language files: en.json is the document of the       *)
(* cursor, fr.json the target; both are well-formed and every file         *)
(* operation succeeds                                                      *)
(***************************************************************************)

MaxSourceKeys == 2

MaxTargetKeys == 3

SourceVals == {<<"x">>}

TargetVals == {<<>>, <<"x">>}

NavInputs == {Undefined, JStr(<<>>), JStr(<<"v">>)}

TargetLangs == {<<"f", "r">>, <<"d", "e">>}

SourceTexts ==
  {JSONstringify(t, Gap2) : t \in Trees(Segs, SourceVals, MaxSourceKeys, MaxDepth)}

TargetTexts ==
  {JSONstringify(t, Gap2) : t \in Trees(Segs, TargetVals, MaxTargetKeys, MaxDepth)}

\* the cursor is on the key or on the value of a line
NavColumns(text, posLine) ==
  IF posLine < Len(LinesOf(text))
    THEN {0, IndexOf(LinesOf(text)[posLine + 1], ":") + 1}
    ELSE {0}

InitNav ==
  /\ disk \in {[f \in Files |-> IF f = EN THEN FileOf(s) ELSE FileOf(t)] :
                 s \in SourceTexts, t \in TargetTexts}
  /\ translations = JObj(<<>>)
  /\ translationsLoaded = FALSE
  /\ ld = [i \in LoadIds |-> LdIdle]
  /\ ad = AdIdle
  /\ adds = 0
  /\ lastCall = NoCall
  /\ languageFiles = EmptyMap
  /\ nav = [n \in NavIds |-> NavIdle]
  /\ selection = NoSelection
  /\ clipboard = Undefined
  /\ scan = [i \in ScanIds |-> ScanIdle]
  /\ table = TableIdle
  /\ decorations = <<>>

NextNav ==
  \E n \in NavIds :
    \/ \E l \in DocLines(disk[EN].text) :
         \E c \in NavColumns(disk[EN].text, l) :
           \E lang \in TargetLangs : NavStart(n, EN, l, c, lang)
    \/ NavScanPathExists(n)
    \/ \E files \in Readdir(disk) : NavScanReaddir(n, files)
    \/ NavOpen(n)
    \/ \E answer \in Answers : NavQuickPick(n, answer)
    \/ NavReadSource(n)
    \/ NavReadTarget(n)
    \/ \E input \in NavInputs \cup {nav[n].sourceValue} : NavInputBox(n, input)
    \/ NavWriteFile(n)
    \/ NavReopen(n)

SpecNav == InitNav /\ [][NextNav]_vars

(***************************************************************************)
(* Properties of the navigation                                            *)
(***************************************************************************)

NavDone(n) == nav[n].pc = "done"

KeyParts(n) == Split(nav[n].keyPath, ".")

\* the target file as it was when the navigation started, and as it is
TargetTree0(n) == JSONparse(nav[n].disk0[nav[n].targetFilePath].text)

TargetTree(n) == JSONparse(disk[nav[n].targetFilePath].text)

\* the navigation got as far as searching the target file
Searched(n) == nav[n].found # -1 \/ nav[n].prompted

\* the path in the tree of the key on the selected line of the target file
SelectedPath(n) == LinePaths(TargetTree(n))[selection.pos.line + 1]

Created(n) ==
  /\ NavDone(n)
  /\ nav[n].prompted
  /\ nav[n].answer = "Yes"
  /\ Truthy(nav[n].input)

Cancelled(n) ==
  /\ NavDone(n)
  /\ nav[n].prompted
  /\ \/ nav[n].answer \in {"No", "dismissed"}
     \/ nav[n].asked /\ ~Truthy(nav[n].input)

\* C4: a navigation with path P that is offered creation, answered 'Yes' and
\* given a non-empty value V ends with the target file holding V at P and
\* the source file as it was when the navigation started
C4_CreateAddsToTarget ==
  \A n \in NavIds :
    Created(n) =>
      /\ LeafAt(TargetTree(n), nav[n].keyPath) = nav[n].input
      /\ disk[nav[n].doc] = nav[n].disk0[nav[n].doc]

\* a creation of a.b in a target file where a is the empty string
C4_Witness ==
  \E n \in NavIds :
    /\ Created(n)
    /\ nav[n].keyPath = <<"a", ".", "b">>
    /\ Get(TargetTree0(n), <<"a">>) = JStr(<<>>)
    /\ nav[n].input = JStr(<<"v">>)

\* C5: a navigation that is offered creation and is cancelled, at the choice
\* or at the value prompt, leaves every file as it was when it started
C5_CancelKeepsFiles ==
  \A n \in NavIds : Cancelled(n) => disk = nav[n].disk0

\* a navigation answered 'Yes' and then given the empty value
C5_Witness ==
  \E n \in NavIds :
    /\ Cancelled(n)
    /\ nav[n].answer = "Yes"
    /\ nav[n].input = JStr(<<>>)

\* C6: a navigation that has searched the target file for a path the
\* target's tree does not resolve has offered the creation
C6_PromptWhenMissing ==
  \A n \in NavIds :
    (/\ NavDone(n)
     /\ Searched(n)
     /\ NodeAt(JSONparse(nav[n].text0), KeyParts(n)) = Undefined)
      => nav[n].prompted

\* C7: a navigation with a path that exists in the target file ends with the
\* selection in the target file on the line of the key with that path
C7_SelectionAtKey ==
  \A n \in NavIds :
    (/\ NavDone(n)
     /\ Searched(n)
     /\ NodeAt(JSONparse(nav[n].text0), KeyParts(n)) # Undefined)
      => /\ nav[n].found # -1
         /\ selection.doc = nav[n].targetFilePath
         /\ SelectedPath(n) = JStr(nav[n].keyPath)

\* C8: after a creation the search on the written file succeeds, the
\* selection is on the line of the new leaf key, and the notification is
\* shown only once the file is written
C8_SelectionAtCreatedLeaf ==
  \A n \in NavIds :
    /\ nav[n].notified => nav[n].wrote
    /\ Created(n) =>
         /\ nav[n].newPosition # -1
         /\ nav[n].notified
         /\ selection.doc = nav[n].targetFilePath
         /\ SelectedPath(n) = JStr(nav[n].keyPath)


(***************************************************************************)
(* The registry on its own: scans of a directory whose files come and go   *)
(***************************************************************************)

MaxDirFiles == 3

\* names a directory may hold: language files in both cases, and namesakes
DirNames ==
  {EN, FR,
   <<"E", "N", ".", "j", "s", "o", "n">>,
   <<"e", "n", ".", "J", "S", "O", "N">>,
   <<"c", "o", "n", "f", "i", "g", ".", "j", "s", "o", "n">>,
   <<"e", "n", "g", ".", "j", "s", "o", "n">>,
   <<"e", "1", ".", "j", "s", "o", "n">>,
   <<"e", "n", ".", "j", "s", "o", "n", "l">>}

EmptyDictionary == FileOf(<<"{", "}">>)

Existing(d) == {f \in DOMAIN d : d[f].exists}

\* a file appears in the directory
DirCreate(f) ==
  /\ ~disk[f].exists
  /\ Cardinality(Existing(disk)) < MaxDirFiles
  /\ disk' = [disk EXCEPT ![f] = EmptyDictionary]
  /\ UNCHANGED <<lastCall>>
  /\ UNCHANGED storeVars
  /\ UNCHANGED navVars

\* a file is removed from the directory
DirDelete(f) ==
  /\ disk[f].exists
  /\ disk' = [disk EXCEPT ![f] = NoFile]
  /\ UNCHANGED <<lastCall>>
  /\ UNCHANGED storeVars
  /\ UNCHANGED navVars

InitScan ==
  /\ disk \in {d \in [DirNames -> {NoFile, EmptyDictionary}] :
                 Cardinality(Existing(d)) <= MaxDirFiles}
  /\ translations = JObj(<<>>)
  /\ translationsLoaded = FALSE
  /\ ld = [i \in LoadIds |-> LdIdle]
  /\ ad = AdIdle
  /\ adds = 0
  /\ lastCall = NoCall
  /\ languageFiles = EmptyMap
  /\ nav = [n \in NavIds |-> NavIdle]
  /\ selection = NoSelection
  /\ clipboard = Undefined
  /\ scan = [i \in ScanIds |-> ScanIdle]
  /\ table = TableIdle
  /\ decorations = <<>>

NextScan ==
  \/ \E i \in ScanIds :
       \/ ScanStart(i)
       \/ \E exists \in BOOLEAN : ScanPathExists(i, exists)
       \/ \E files \in Readdir(disk) : ScanReaddir(i, files)
       \/ ScanReaddirRejected(i)
  \/ \E f \in DirNames : DirCreate(f)
  \/ \E f \in DirNames : DirDelete(f)

SpecScan == InitScan /\ [][NextScan]_vars

(***************************************************************************)
(* Properties of the registry                                              *)
(***************************************************************************)

Letters == {LowerCase[i] : i \in 1..26} \cup {UpperCase[i] : i \in 1..26}

\* ".json" in every mix of cases
JsonExts ==
  {<<".", j, s, o, n>> : j \in {"j", "J"}, s \in {"s", "S"},
                         o \in {"o", "O"}, n \in {"n", "N"}}

\* two letters followed by .json, case-insensitive
IsTwoLetterJson(f) ==
  /\ Len(f) = 7
  /\ f[1] \in Letters
  /\ f[2] \in Letters
  /\ SubSeq(f, 3, 7) \in JsonExts

CodeOf(f) == ToLowerCase(SubSeq(f, 1, 2))

Listed(i) == {scan[i].files[k] : k \in 1..Len(scan[i].files)}

Scanned(i) ==
  scan[i].pc = "done" /\ scan[i].exists /\ scan[i].listed = "resolved"

\* C12: when a scan of an existing directory has returned, the registry
\* holds an entry for exactly the lowercased codes of the listed names that
\* are two letters followed by .json, each mapped to a listed name of that
\* code, and nothing for any other name
C12_RegistryIsLanguageFiles ==
  \A i \in ScanIds :
    Scanned(i) =>
      LET lang == {f \in Listed(i) : IsTwoLetterJson(f)}
      IN  /\ DOMAIN languageFiles = {CodeOf(f) : f \in lang}
          /\ \A c \in DOMAIN languageFiles :
               languageFiles[c] \in lang /\ CodeOf(languageFiles[c]) = c

\* a scan that listed en.json, EN.json and config.json
C12_Witness ==
  \E i \in ScanIds :
    /\ Scanned(i)
    /\ Listed(i) = {EN, <<"E", "N", ".", "j", "s", "o", "n">>,
                    <<"c", "o", "n", "f", "i", "g", ".", "j", "s", "o", "n">>}
    /\ DOMAIN languageFiles = {<<"e", "n">>}

\* C21: a scan that found no base directory has returned with an empty
\* registry and without a message; a scan whose listing of the directory
\* was rejected has returned with an empty registry and an error message;
\* either way nothing of the registry of before the scan is left
C21_FailedScanEmptiesRegistry ==
  \A i \in ScanIds :
    /\ (scan[i].pc = "done" /\ ~scan[i].exists)
         => (languageFiles = EmptyMap /\ scan[i].msg = "none")
    /\ (scan[i].pc = "done" /\ scan[i].listed = "rejected")
         => (languageFiles = EmptyMap /\ scan[i].msg = "error")

\* a scan whose listing was rejected, called on a registry that held en
C21_Witness ==
  \E i \in ScanIds :
    /\ scan[i].pc = "done" /\ scan[i].listed = "rejected"
    /\ <<"e", "n">> \in DOMAIN scan[i].before
    /\ languageFiles = EmptyMap

(***************************************************************************)
(* Classification of paths: isLanguageFile and getLanguageCodeFromPath     *)
(* called on documents of the workspace                                    *)
(***************************************************************************)

JBool(b) == [t |-> "boolean", b |-> b]

\* directories of the paths: none, the i18n directory, a directory that is
\* itself named like a language file
Dirs ==
  {<<>>,
   <<"/", "w", "/", "i", "1", "8", "n", "/">>,
   <<"/", "w", "/", "e", "n", ".", "j", "s", "o", "n", "/">>}

FsPaths == {dir \o name : dir \in Dirs, name \in DirNames}

\* a call of isLanguageFile on a document
IsLanguageFile(languageId, fsPath) ==
  /\ lastCall' = [NoCall EXCEPT
                    !.fn = "isLanguageFile",
                    !.languageId = languageId,
                    !.key = fsPath,
                    !.result = JBool(isLanguageFile(languageId, fsPath))]
  /\ UNCHANGED disk
  /\ UNCHANGED storeVars
  /\ UNCHANGED navVars

\* a call of getLanguageCodeFromPath
GetLanguageCodeFromPath(filePath) ==
  /\ lastCall' = [NoCall EXCEPT
                    !.fn = "getLanguageCodeFromPath",
                    !.key = filePath,
                    !.result = getLanguageCodeFromPath(filePath)]
  /\ UNCHANGED disk
  /\ UNCHANGED storeVars
  /\ UNCHANGED navVars

\* one call per behaviour
NextPaths ==
  /\ lastCall = NoCall
  /\ \E fsPath \in FsPaths :
       \/ \E languageId \in LanguageIds : IsLanguageFile(languageId, fsPath)
       \/ GetLanguageCodeFromPath(fsPath)

InitPaths == InitScan /\ Existing(disk) = {}

SpecPaths == InitPaths /\ [][NextPaths]_vars

\* the base name: the part of the path without separator that ends it
BaseNameOf(path) ==
  CHOOSE b \in {SubSeq(path, k, Len(path)) : k \in 1..Len(path)} :
    /\ \A i \in 1..Len(b) : b[i] # "/"
    /\ Len(b) = Len(path) \/ path[Len(path) - Len(b)] = "/"

\* C13: isLanguageFile is true exactly when the language id is json and
\* getLanguageCodeFromPath of the path is defined; getLanguageCodeFromPath
\* is the lowercased two letters for a base name of two letters followed by
\* .json in any case, and undefined for every other name
C13_LanguageFileClassification ==
  /\ lastCall.fn = "isLanguageFile" =>
       lastCall.result =
         JBool(/\ lastCall.languageId = JsonId
               /\ getLanguageCodeFromPath(lastCall.key) # Undefined)
  /\ lastCall.fn = "getLanguageCodeFromPath" =>
       lastCall.result =
         IF IsTwoLetterJson(BaseNameOf(lastCall.key))
           THEN JStr(CodeOf(BaseNameOf(lastCall.key)))
           ELSE Undefined

\* a call on the path of EN.json in the i18n directory
C13_Witness ==
  /\ lastCall.fn = "getLanguageCodeFromPath"
  /\ lastCall.key = <<"/", "w", "/", "i", "1", "8", "n", "/">>
                      \o <<"E", "N", ".", "j", "s", "o", "n">>
  /\ lastCall.result = JStr(<<"e", "n">>)


(***************************************************************************)
(* I18N_KEY_PATTERN and the loop of exec calls of updateDecorations        *)
(***************************************************************************)

MaxTextLen == 5

Quotes == {"'", "\""}

\* [a-z0-9_] under the i flag
IsKeyChar(c) == IsLetter(c) \/ (\E i \in 1..10 : Digits[i] = c) \/ c = "_"

\* [a-z0-9_]+ from the 1-based position i: the positions after each run the
\* quantifier may take
KeyCharRunEnds(text, i) ==
  {j \in (i + 1)..(Len(text) + 1) : \A k \in i..(j - 1) : IsKeyChar(text[k])}

\* (?:\.[a-z0-9_]+)+ from any of the positions S: the positions after one or
\* more groups
RECURSIVE GroupEnds(_, _)
GroupEnds(text, S) ==
  LET one == UNION {KeyCharRunEnds(text, j + 1) :
                      j \in {j \in S : j <= Len(text) /\ text[j] = "."}}
  IN  IF one = {} THEN {} ELSE one \cup GroupEnds(text, one)

\* a version whose closing quote need not be the opening one
MatchEndsAtEitherQuote(text, i) ==
  IF i > Len(text) \/ text[i] \notin Quotes THEN {}
  ELSE {e + 1 : e \in {e \in GroupEnds(text, KeyCharRunEnds(text, i + 1)) :
                         e <= Len(text) /\ text[e] \in Quotes}}

\* (['"])([a-z0-9_]+(?:\.[a-z0-9_]+)+)\1 tried at the 1-based position i:
\* the positions after each way the pattern matches
MatchEndsAt(text, i) ==
  IF i > Len(text) \/ text[i] \notin Quotes THEN {}
  ELSE {e + 1 : e \in {e \in GroupEnds(text, KeyCharRunEnds(text, i + 1)) :
                         e <= Len(text) /\ text[e] = text[i]}}

\* keyPattern.exec(text) from lastIndex: the leftmost position that matches,
\* with the longest match the greedy quantifiers reach; Undefined for null
KeyPatternExec(text, lastIndex) ==
  LET starts == {i \in (lastIndex + 1)..Len(text) : MatchEndsAt(text, i) # {}}
  IN  IF starts = {} THEN Undefined
      ELSE LET i == CHOOSE i \in starts : \A j \in starts : i <= j
               ends == MatchEndsAt(text, i)
               e == CHOOSE e \in ends : \A f \in ends : f <= e
           IN  [index |-> i - 1,
                m0 |-> SubSeq(text, i, e - 1),
                m2 |-> SubSeq(text, i + 1, e - 2),
                lastIndex |-> e - 1]

\* while ((match = keyPattern.exec(text))): the matches in order
RECURSIVE ExecLoop(_, _)
ExecLoop(text, lastIndex) ==
  LET match == KeyPatternExec(text, lastIndex)
  IN  IF match = Undefined THEN <<>>
      ELSE <<match>> \o ExecLoop(text, match.lastIndex)

\* the document of the active editor
TS == <<"a", ".", "t", "s">>

\* characters of the texts: both quotes, a key character, the separator and
\* a character that is none of these
TextChars == {"'", "\"", "a", ".", " "}

RECURSIVE StringsOver(_, _)
StringsOver(chars, n) ==
  IF n = 0 THEN {<<>>}
  ELSE LET shorter == StringsOver(chars, n - 1)
       IN  shorter \cup {<<c>> \o t : c \in chars, t \in {t \in shorter : Len(t) = n - 1}}

\* the texts: free text, alone or after a double-quoted key
SourceTextsOfEditor ==
  {pre \o t : pre \in {<<>>, <<"\"", "A", "_", ".", "b", "9", "\"">>},
              t \in StringsOver(TextChars, MaxTextLen)}

\* the matches updateDecorations goes through on the text of the editor
KeyPatternMatches ==
  /\ disk[TS].exists
  /\ lastCall' = [NoCall EXCEPT
                    !.fn = "keyPattern.exec",
                    !.text = disk[TS].text,
                    !.matches = ExecLoop(disk[TS].text, 0)]
  /\ UNCHANGED disk
  /\ UNCHANGED storeVars
  /\ UNCHANGED navVars

InitPattern ==
  /\ disk \in {[f \in {TS} |-> FileOf(t)] : t \in SourceTextsOfEditor}
  /\ translations = JObj(<<>>)
  /\ translationsLoaded = FALSE
  /\ ld = [i \in LoadIds |-> LdIdle]
  /\ ad = AdIdle
  /\ adds = 0
  /\ lastCall = NoCall
  /\ languageFiles = EmptyMap
  /\ nav = [n \in NavIds |-> NavIdle]
  /\ selection = NoSelection
  /\ clipboard = Undefined
  /\ scan = [i \in ScanIds |-> ScanIdle]
  /\ table = TableIdle
  /\ decorations = <<>>

\* one pass per behaviour
NextPattern == lastCall = NoCall /\ KeyPatternMatches

SpecPattern == InitPattern /\ [][NextPattern]_vars

\* two or more non-empty segments of letters, digits and underscores joined
\* by '.'
IsDottedKey(inner) ==
  LET parts == Split(inner, ".")
  IN  /\ Len(parts) >= 2
      /\ \A k \in 1..Len(parts) :
           /\ parts[k] # <<>>
           /\ \A i \in 1..Len(parts[k]) :
                parts[k][i] \in Letters \cup {Digits[d] : d \in 1..10} \cup {"_"}

\* C14: every match reported over a text is a piece of the text that starts
\* and ends with the same quote character, single or double, and encloses
\* two or more non-empty segments of letters, digits and underscores joined
\* by '.', which is the key reported
C14_MatchesAreQuotedKeys ==
  lastCall.fn = "keyPattern.exec" =>
    \A k \in 1..Len(lastCall.matches) :
      LET match == lastCall.matches[k]
          n == Len(match.m0)
      IN  /\ match.m0 = SubSeq(lastCall.text, match.index + 1, match.index + n)
          /\ n >= 2
          /\ match.m0[1] \in {"'", "\""}
          /\ match.m0[n] = match.m0[1]
          /\ match.m2 = SubSeq(match.m0, 2, n - 1)
          /\ IsDottedKey(match.m2)

\* a text with two matches, the second in single quotes
C14_Witness ==
  /\ lastCall.fn = "keyPattern.exec"
  /\ Len(lastCall.matches) = 2
  /\ lastCall.matches[2].m0 = <<"'", "a", ".", "a", "'">>


(***************************************************************************)
(* DecorationProvider.truncateTranslationValue                             *)
(***************************************************************************)

MaxValueLen == 4

\* a version that cuts a value of exactly maxLength characters too
truncateTranslationValueStrict(value, maxLength) ==
  IF Len(value) < maxLength THEN value
  ELSE Substring(value, 0, maxLength) \o <<".", ".", ".">>

truncateTranslationValue(value, maxLength) ==
  IF Len(value) <= maxLength THEN value
  ELSE Substring(value, 0, maxLength) \o <<".", ".", ".">>

\* a call with a translation value and the configured maximum length
TruncateTranslationValue(value, maxLength) ==
  /\ lastCall' = [NoCall EXCEPT
                    !.fn = "truncateTranslationValue",
                    !.key = value,
                    !.maxLength = maxLength,
                    !.result = JStr(truncateTranslationValue(value, maxLength))]
  /\ UNCHANGED disk
  /\ UNCHANGED storeVars
  /\ UNCHANGED navVars

\* one call per behaviour
NextTruncate ==
  /\ lastCall = NoCall
  /\ \E value \in StringsOver({"x", "."}, MaxValueLen) :
       \E maxLength \in 0..(MaxValueLen + 1) :
         TruncateTranslationValue(value, maxLength)

SpecTruncate == InitPaths /\ [][NextTruncate]_vars

Truncated == lastCall.fn = "truncateTranslationValue"

\* C15: a value of at most maxLength characters is returned unchanged, and
\* a longer one as its first maxLength characters followed by '...'
C15_Truncate ==
  Truncated =>
    LET value == lastCall.key
        out == lastCall.result.s
    IN  IF Len(value) <= lastCall.maxLength
          THEN out = value
          ELSE /\ Len(out) = lastCall.maxLength + 3
               /\ \A i \in 1..lastCall.maxLength : out[i] = value[i]
               /\ \A i \in 1..3 : out[lastCall.maxLength + i] = "."

\* a call with a value of exactly maxLength characters
C15_Witness ==
  /\ Truncated
  /\ Len(lastCall.key) = 3
  /\ lastCall.maxLength = 3
  /\ lastCall.result = JStr(lastCall.key)


(***************************************************************************)
(* The store under reload: loads of a dictionary file that is edited,      *)
(* damaged or removed in the workspace between and during the loads        *)
(***************************************************************************)

\* what the dictionary file can become: well-formed JSON, malformed JSON,
\* or no file
DictionaryContents ==
  {FileOf(t) : t \in StoreTexts \cup {Malformed}} \cup {NoFile}

\* the dictionary file is written or removed from outside the extension
FileChanged(c) ==
  /\ c # disk[i18nFilePath]
  /\ disk' = [disk EXCEPT ![i18nFilePath] = c]
  /\ UNCHANGED storeVars
  /\ UNCHANGED lastCall
  /\ UNCHANGED navVars

NextReload ==
  \/ \E i \in LoadIds : StoreQuiet /\ LoadStart(i)
  \/ \E i \in LoadIds : LoadPathExists(i)
  \/ \E i \in LoadIds : LoadReadFile(i)
  \/ \E c \in DictionaryContents : FileChanged(c)

SpecReload == InitStore /\ [][NextReload]_vars

\* the step in which load i returns after a warning (file missing) or an
\* error (unreadable or malformed file)
LoadFails(i) ==
  /\ ld[i].pc # "done"
  /\ ld'[i].pc = "done"
  /\ ld'[i].msg # "none"

\* C19: a loadTranslations that fails while the store holds a tree from an
\* earlier successful load leaves the store as it was: the tree is the one
\* loaded before and the store still counts as loaded
C19_FailedLoadKeepsState ==
  [][\A i \in LoadIds :
       (LoadFails(i) /\ translationsLoaded)
         => (translations' = translations /\ translationsLoaded')]_vars


(***************************************************************************)
(* Writers of the dictionary file: the store's addTranslation, the         *)
(* navigation with creation of a missing key between en.json and fr.json   *)
(* in both directions, and the save of the table view; one command at a    *)
(* time, in any order, each of the three and the scan at most once         *)
(***************************************************************************)

MaxOwnerKeys == 1

OwnerVals == {<<"v">>}

OwnerLangs == {<<"e", "n">>, <<"f", "r">>}

OwnerSegs == {<<"a">>}

\* the keys added by addTranslation and edited in the table view
OwnerKeys == {<<"a">>, <<"a", ".", "b">>}

OwnerTexts ==
  {JSONstringify(t, Gap2) :
     t \in Trees(OwnerSegs, SourceVals, MaxOwnerKeys, MaxDepth)}

\* no command is running
OwnerQuiet ==
  /\ Resting(ad.pc)
  /\ Resting(table.pc)
  /\ \A n \in NavIds : Resting(nav[n].pc)
  /\ \A i \in ScanIds : Resting(scan[i].pc)

InitOwner ==
  /\ disk \in [Files -> {FileOf(t) : t \in OwnerTexts}]
  /\ translations = JObj(<<>>)
  /\ translationsLoaded = FALSE
  /\ ld = [i \in LoadIds |-> LdIdle]
  /\ ad = AdIdle
  /\ adds = 0
  /\ lastCall = NoCall
  /\ languageFiles = EmptyMap
  /\ nav = [n \in NavIds |-> NavIdle]
  /\ selection = NoSelection
  /\ clipboard = Undefined
  /\ scan = [i \in ScanIds |-> ScanIdle]
  /\ table = TableIdle
  /\ decorations = <<>>

NextOwner ==
  \/ \E k \in OwnerKeys, v \in OwnerVals : OwnerQuiet /\ AddStart(k, v)
  \/ AddPathExists
  \/ AddReadFile
  \/ \E a \in Answers : AddConfirm(a)
  \/ \E o \in WriteOutcomes : AddWriteFile(o)
  \/ \E i \in ScanIds : OwnerQuiet /\ scan[i].pc = "idle" /\ ScanStart(i)
  \/ \E i \in ScanIds : ScanPathExists(i, TRUE)
  \/ \E i \in ScanIds : \E files \in Readdir(disk) : ScanReaddir(i, files)
  \/ \E n \in NavIds, doc \in Files, lang \in OwnerLangs :
       \E l \in DocLines(disk[doc].text) :
         \E c \in NavColumns(disk[doc].text, l) :
           /\ OwnerQuiet
           /\ nav[n].pc = "idle"
           /\ getLanguageCodeFromPath(doc) # JStr(lang)
           /\ NavStart(n, doc, l, c, lang)
  \/ \E n \in NavIds : NavScanPathExists(n)
  \/ \E n \in NavIds : \E files \in Readdir(disk) : NavScanReaddir(n, files)
  \/ \E n \in NavIds : NavOpen(n)
  \/ \E n \in NavIds : \E answer \in Answers : NavQuickPick(n, answer)
  \/ \E n \in NavIds : NavReadSource(n)
  \/ \E n \in NavIds : NavReadTarget(n)
  \/ \E n \in NavIds :
       \E input \in NavInputs \cup {nav[n].sourceValue} : NavInputBox(n, input)
  \/ \E n \in NavIds : NavWriteFile(n)
  \/ \E n \in NavIds : NavReopen(n)
  \/ \E langCode \in OwnerLangs, k \in OwnerKeys, v \in OwnerVals :
       OwnerQuiet /\ table.pc = "idle" /\ TableSaveStart(langCode, k, v)
  \/ TableOpenTextDocument
  \/ TableApplyEdit
  \/ TableDocumentSave

SpecOwner == InitOwner /\ [][NextOwner]_vars

\* the step in which fs.writeFile of addTranslation resolves
StoreWrites ==
  /\ ad.pc = "writeFile"
  /\ ad'.pc = "done"

\* C20: the configured dictionary file changes only in a step of the
\* store's addTranslation; no navigation towards any language and no save
\* of the table view changes it
C20_StoreIsSoleWriter ==
  [][disk'[i18nFilePath] # disk[i18nFilePath] => StoreWrites]_vars


(***************************************************************************)
(* Navigation under failure: en.json and fr.json can be removed or         *)
(* damaged while a navigation from en.json is running, and the listing of  *)
(* the directory and the write of the target can be rejected               *)
(***************************************************************************)

\* what a damaged file becomes
Damages == {NoFile, FileOf(Malformed)}

\* a language file is removed or overwritten with malformed text from
\* outside the extension
FileDamaged(f, c) ==
  /\ disk[f] \notin Damages
  /\ disk' = [disk EXCEPT ![f] = c]
  /\ UNCHANGED storeVars
  /\ UNCHANGED lastCall
  /\ UNCHANGED navVars

NextNavFail ==
  \/ \E n \in NavIds :
       \/ \E l \in DocLines(disk[EN].text) :
            \E c \in NavColumns(disk[EN].text, l) :
              \E lang \in TargetLangs : NavStart(n, EN, l, c, lang)
       \/ NavScanPathExists(n)
       \/ \E files \in Readdir(disk) : NavScanReaddir(n, files)
       \/ NavScanReaddirRejected(n)
       \/ NavOpen(n)
       \/ \E answer \in Answers : NavQuickPick(n, answer)
       \/ NavReadSource(n)
       \/ NavReadTarget(n)
       \/ \E input \in NavInputs \cup {nav[n].sourceValue} : NavInputBox(n, input)
       \/ NavWriteFile(n)
       \/ \E emptied \in BOOLEAN : NavWriteFileRejected(n, emptied)
       \/ NavReopen(n)
  \/ \E f \in Files, c \in Damages : FileDamaged(f, c)

SpecNavFail == InitOwner /\ [][NextNavFail]_vars

\* C22: whatever step of navigateToTranslation or createMissingTranslation
\* fails (opening the target document, reading or parsing either file,
\* writing the target), the error does not leave the navigation: the call
\* has returned and an error message was shown
C22_NoFailureEscapes ==
  \A n \in NavIds :
    /\ nav[n].pc # "rejected"
    /\ nav[n].failure # "none" => (nav[n].pc = "done" /\ nav[n].msg = "error")

\* a navigation whose write of the target was rejected after the source and
\* the target were read and parsed
C22_Witness ==
  \E n \in NavIds :
    /\ nav[n].pc = "done"
    /\ nav[n].failure = "writeFile"
    /\ nav[n].asked
    /\ nav[n].msg = "error"

\* a navigation that has returned after an abort (a warning) or a failure
\* (an error message)
FailedNav(n) ==
  /\ nav[n].pc = "done"
  /\ nav[n].msg \in {"warning", "error"}

\* C27 as stated: after a failed navigation the registry is the registry
\* the navigation started with
C27_RegistryAsBefore ==
  \A n \in NavIds : FailedNav(n) => languageFiles = nav[n].registry0

\* C27: a failed navigation leaves the registry as it was at its target
\* lookup; that is the registry it started with when that one was not
\* empty, and the outcome of the scan it ran itself when it was empty
C27_RegistryAsAtLookup ==
  \A n \in NavIds :
    FailedNav(n) =>
      /\ languageFiles = nav[n].registry1
      /\ DOMAIN nav[n].registry0 # {} => nav[n].registry1 = nav[n].registry0

\* a navigation that started on a filled registry and failed after its
\* target lookup, while a listed file was removed or damaged meanwhile
C27_Witness ==
  \E n \in NavIds :
    /\ FailedNav(n)
    /\ nav[n].failure # "none"
    /\ DOMAIN nav[n].registry0 # {}
    /\ \E f \in Files : disk[f] \in Damages


(***************************************************************************)
(* The two walks that add a key to a parsed tree: the store's              *)
(* addTranslation and the navigator's createMissingTranslation, run on     *)
(* the same tree, key path and value                                       *)
(***************************************************************************)

\* the values given to both walks: createMissingTranslation returns before
\* its walk on an empty value
WalkVals == {<<"v">>}

\* both walks on one parsed tree
WalkBoth(tree, key, value) ==
  /\ lastCall' = [NoCall EXCEPT
                    !.fn = "walk",
                    !.tree = tree,
                    !.key = key,
                    !.text = value,
                    !.result =
                       [add |-> AddWalk(tree, Split(key, "."), value),
                        create |-> CreateWalk(tree, Split(key, "."), value)]]
  /\ UNCHANGED disk
  /\ UNCHANGED storeVars
  /\ UNCHANGED navVars

\* one pair of walks per behaviour
NextWalks ==
  /\ lastCall = NoCall
  /\ \E tree \in Trees(Segs, StoreVals, MaxStoreKeys, MaxDepth) :
       \E key \in PathsOver(Segs, MaxPathLen), value \in WalkVals :
         WalkBoth(tree, key, value)

SpecWalks == InitPaths /\ [][NextWalks]_vars

Walked == lastCall.fn = "walk"

\* C23: on every tree, key path and value the walk of
\* createMissingTranslation ends as the walk of addTranslation does: where
\* the store refuses the navigator refuses, and otherwise both build the
\* same tree; the navigator has no refusal, so the store's walk must not
\* refuse and the trees must be equal
C23_CreateWalkAsAddWalk ==
  Walked =>
    /\ ~lastCall.result.add.refused
    /\ lastCall.result.create = lastCall.result.add.tree


(***************************************************************************)
(* Overlapping scans: two unawaited scanLanguageFiles calls (activation,   *)
(* configuration changes), the second started no earlier than the first,   *)
(* on an existing directory in which en.json and fr.json come and go       *)
(***************************************************************************)

OverlapIds == {1, 2}

InitOverlap ==
  /\ disk \in [Files -> {NoFile, EmptyDictionary}]
  /\ translations = JObj(<<>>)
  /\ translationsLoaded = FALSE
  /\ ld = [i \in LoadIds |-> LdIdle]
  /\ ad = AdIdle
  /\ adds = 0
  /\ lastCall = NoCall
  /\ languageFiles = EmptyMap
  /\ nav = [n \in NavIds |-> NavIdle]
  /\ selection = NoSelection
  /\ clipboard = Undefined
  /\ scan = [i \in OverlapIds |-> ScanIdle]
  /\ table = TableIdle
  /\ decorations = <<>>

NextOverlap ==
  \/ scan[1].pc = "idle" /\ scan[2].pc = "idle" /\ ScanStart(1)
  \/ scan[1].pc # "idle" /\ scan[2].pc = "idle" /\ ScanStart(2)
  \/ \E i \in OverlapIds : ScanPathExists(i, TRUE)
  \/ \E i \in OverlapIds : \E files \in Readdir(disk) : ScanReaddir(i, files)
  \/ \E i \in OverlapIds : ScanReaddirRejected(i)
  \/ \E f \in Files : DirCreate(f)
  \/ \E f \in Files : DirDelete(f)

SpecOverlap == InitOverlap /\ [][NextOverlap]_vars

\* the names listed by scan i that are language files
FoundBy(i) == {f \in Listed(i) : IsTwoLetterJson(f)}

\* C24: once both scans have returned, the registry holds exactly the
\* entries found by the scan that was started last, and nothing of what the
\* earlier scan found
C24_RegistryOfLastScan ==
  (scan[1].pc = "done" /\ scan[2].pc = "done")
    => /\ DOMAIN languageFiles = {CodeOf(f) : f \in FoundBy(2)}
       /\ \A c \in DOMAIN languageFiles : languageFiles[c] \in FoundBy(2)


(***************************************************************************)
(* Overlapping loads: i18nHelper.i18nFilePath is set twice in succession   *)
(* and each change calls loadTranslations without awaiting it; the second  *)
(* load is started no earlier than the first                               *)
(***************************************************************************)

ConfigLoadIds == {1, 2}

\* the handler of a configuration change that set i18nFilePath to `path':
\* loadTranslations reads the setting and runs up to fs.pathExists
LoadStartAt(i, path) ==
  /\ ld[i].pc = "idle"
  /\ ld' = [ld EXCEPT ![i] = [pc |-> "pathExists", path |-> path,
                              msg |-> "none", epoch |-> adds]]
  /\ lastCall' = NoCall
  /\ UNCHANGED <<disk, translations, translationsLoaded, ad, adds>>
  /\ UNCHANGED navVars

InitConfig ==
  /\ disk \in [Files -> DictionaryContents]
  /\ translations = JObj(<<>>)
  /\ translationsLoaded = FALSE
  /\ ld = [i \in ConfigLoadIds |-> LdIdle]
  /\ ad = AdIdle
  /\ adds = 0
  /\ lastCall = NoCall
  /\ languageFiles = EmptyMap
  /\ nav = [n \in NavIds |-> NavIdle]
  /\ selection = NoSelection
  /\ clipboard = Undefined
  /\ scan = [i \in ScanIds |-> ScanIdle]
  /\ table = TableIdle
  /\ decorations = <<>>

NextConfig ==
  \/ \E path \in Files : ld[2].pc = "idle" /\ LoadStartAt(1, path)
  \/ \E path \in Files : ld[1].pc # "idle" /\ LoadStartAt(2, path)
  \/ \E i \in ConfigLoadIds : LoadPathExists(i)
  \/ \E i \in ConfigLoadIds : LoadReadFile(i)

SpecConfig == InitConfig /\ [][NextConfig]_vars

\* what a load of the file at `path' leaves in the store when it is the
\* only one
ReflectsFileAt(path) ==
  IF disk[path].exists /\ JSONparse(disk[path].text) # SyntaxError
    THEN translationsLoaded /\ translations = JSONparse(disk[path].text)
    ELSE ~translationsLoaded

\* C25: once both loads have returned, the tree and the loaded flag are
\* those of the file at the path configured last, the path of the load that
\* was started last
C25_StoreOfLastConfiguredPath ==
  (ld[1].pc = "done" /\ ld[2].pc = "done") => ReflectsFileAt(ld[2].path)


(***************************************************************************)
(* Two navigations from en.json towards fr, each started once and running  *)
(* side by side: both can stand at their prompts at the same time          *)
(***************************************************************************)

RaceIds == {1, 2}

RaceLang == <<"f", "r">>

InitRace ==
  /\ disk \in {[f \in Files |-> IF f = EN THEN FileOf(s) ELSE FileOf(t)] :
                 s \in SourceTexts, t \in OwnerTexts}
  /\ translations = JObj(<<>>)
  /\ translationsLoaded = FALSE
  /\ ld = [i \in LoadIds |-> LdIdle]
  /\ ad = AdIdle
  /\ adds = 0
  /\ lastCall = NoCall
  /\ languageFiles = EmptyMap
  /\ nav = [n \in RaceIds |-> NavIdle]
  /\ selection = NoSelection
  /\ clipboard = Undefined
  /\ scan = [i \in ScanIds |-> ScanIdle]
  /\ table = TableIdle
  /\ decorations = <<>>

NextRace ==
  \E n \in RaceIds :
    \/ \E l \in DocLines(disk[EN].text) :
         /\ nav[n].pc = "idle"
         /\ NavStart(n, EN, l, 0, RaceLang)
    \/ NavScanPathExists(n)
    \/ \E files \in Readdir(disk) : NavScanReaddir(n, files)
    \/ NavOpen(n)
    \/ \E answer \in Answers : NavQuickPick(n, answer)
    \/ NavReadSource(n)
    \/ NavReadTarget(n)
    \/ \E input \in {Undefined, JStr(<<"v">>), nav[n].sourceValue} :
         NavInputBox(n, input)
    \/ NavWriteFile(n)
    \/ NavReopen(n)

SpecRace == InitRace /\ [][NextRace]_vars

\* the step in which fs.writeFile of navigation n resolves
NavWrites(n) ==
  /\ nav[n].pc = "writeFile"
  /\ nav'[n].pc = "reopen"

\* the tree navigation n builds from the text it read before its prompt
TreeFromRead(n) ==
  CreateWalk(JSONparse(nav[n].targetContent), Split(nav[n].keyPath, "."),
             nav[n].input.s)

\* C26: creations on the same target are not serialized: each write puts
\* on disk the whole tree built from the text its navigation read before
\* its prompt, whatever the other navigation has written since, so the
\* file after the later write is that write's tree
C26_LastWriteWins ==
  [][\A n \in RaceIds :
       NavWrites(n)
         => disk'[nav[n].targetFilePath] =
              FileOf(JSONstringify(TreeFromRead(n), Gap2))]_vars

\* both navigations have written fr.json for different keys, and the file
\* lacks the key of the first
C26_Witness ==
  /\ \A n \in RaceIds : nav[n].pc = "done" /\ nav[n].wrote
  /\ nav[1].keyPath # nav[2].keyPath
  /\ nav[1].targetFilePath = FR /\ nav[2].targetFilePath = FR
  /\ NodeAt(JSONparse(disk[FR].text), Split(nav[1].keyPath, ".")) = Undefined
  /\ NodeAt(JSONparse(disk[FR].text), Split(nav[2].keyPath, ".")) # Undefined


(***************************************************************************)
(* The pre-checks of navigateToTranslation: the command runs from en.json  *)
(* or from app.json, a JSON document of the same directory that is not a   *)
(* language file, on an empty or a filled registry                         *)
(***************************************************************************)

AppJson == <<"a", "p", "p", ".", "j", "s", "o", "n">>

PreFiles == Files \cup {AppJson}

InitPrecheck ==
  /\ disk \in [PreFiles -> {FileOf(t) : t \in OwnerTexts}]
  /\ translations = JObj(<<>>)
  /\ translationsLoaded = FALSE
  /\ ld = [i \in LoadIds |-> LdIdle]
  /\ ad = AdIdle
  /\ adds = 0
  /\ lastCall = NoCall
  /\ languageFiles = EmptyMap
  /\ nav = [n \in NavIds |-> NavIdle]
  /\ selection = NoSelection
  /\ clipboard = Undefined
  /\ scan = [i \in ScanIds |-> ScanIdle]
  /\ table = TableIdle
  /\ decorations = <<>>

NextPrecheck ==
  \E n \in NavIds :
    \/ \E doc \in {EN, AppJson} :
         \E l \in DocLines(disk[doc].text) :
           \E c \in NavColumns(disk[doc].text, l) :
             \E lang \in TargetLangs : NavStart(n, doc, l, c, lang)
    \/ NavScanPathExists(n)
    \/ \E files \in Readdir(disk) : NavScanReaddir(n, files)
    \/ NavOpen(n)
    \/ \E answer \in Answers : NavQuickPick(n, answer)
    \/ NavReadSource(n)
    \/ NavReadTarget(n)
    \/ \E input \in NavInputs \cup {nav[n].sourceValue} : NavInputBox(n, input)
    \/ NavWriteFile(n)
    \/ NavReopen(n)

SpecPrecheck == InitPrecheck /\ [][NextPrecheck]_vars

\* one of the first two checks fails: no key path at the cursor, or the
\* source document is not a two-letter language file
PreChecksFail(n) ==
  \/ nav[n].keyPath = <<>>
  \/ getLanguageCodeFromPath(nav[n].doc) = Undefined

\* the scan of the registry is awaited
Scanning(n) == nav[n].pc \in {"scanPathExists", "scanReaddir"}

\* the navigation has returned with a warning
Aborted(n) == nav[n].pc = "done" /\ nav[n].msg = "warning"

\* C28: the pre-checks run in the order key path, source language, registry,
\* target lookup: a navigation whose key path or source language is missing
\* aborts with a warning and without a scan; one that passed both scans
\* only on an empty registry and aborts with a warning when the registry
\* has no entry for the target language; and an aborted navigation has
\* opened no target document, shown no prompt and written no file
C28_PreCheckOrder ==
  \A n \in NavIds :
    /\ (nav[n].pc # "idle" /\ PreChecksFail(n)) =>
         /\ Aborted(n)
         /\ languageFiles = nav[n].registry0
    /\ Scanning(n) =>
         /\ ~PreChecksFail(n)
         /\ DOMAIN nav[n].registry0 = {}
    /\ (nav[n].pc # "idle" /\ ~Scanning(n) /\ ~PreChecksFail(n)
          /\ nav[n].lang \notin DOMAIN nav[n].registry1) => Aborted(n)
    /\ Aborted(n) =>
         /\ nav[n].targetFilePath = <<>>
         /\ nav[n].text0 = <<>>
         /\ ~nav[n].prompted
         /\ ~nav[n].asked
         /\ ~nav[n].wrote
         /\ disk = nav[n].disk0

\* a navigation started from app.json with a key at the cursor and an empty
\* registry: it has aborted and the registry is still empty
C28_Witness ==
  \E n \in NavIds :
    /\ Aborted(n)
    /\ nav[n].doc = AppJson
    /\ nav[n].keyPath # <<>>
    /\ languageFiles = EmptyMap


(***************************************************************************)
(* The loaded flag and the features that consult it: the decorations of    *)
(* the active editor, the completion provider and the code-action          *)
(* provider, while the dictionary file is reloaded and changed, damaged    *)
(* or removed between the loads                                            *)
(***************************************************************************)

\* the text of the active editor, a TypeScript document: one line with a
\* quoted key
EditorText == <<"'", "a", ".", "b", "'">>

\* i18nHelper.maxTranslationLength (its default is 30)
maxTranslationLength == 1

\* the dictionary with a value for the key of the editor
FlagTexts ==
  {JSONstringify(JObj(<<[k |-> <<"a">>,
                         v |-> JObj(<<[k |-> <<"b">>, v |-> JStr(v)]>>)]>>),
                 Gap2) : v \in {<<"x", "y">>, <<>>}}

FlagContents == {FileOf(t) : t \in FlagTexts \cup {Malformed}} \cup {NoFile}

\* the while loop of updateDecorations over the matches of the key pattern
RECURSIVE DecorationsOf(_, _)
DecorationsOf(matches, tree) ==
  IF matches = <<>> THEN <<>>
  ELSE LET translationValue == getTranslationValue(tree, Head(matches).m2)
       IN  (IF Truthy(translationValue)
              THEN <<truncateTranslationValue(translationValue.s,
                                              maxTranslationLength)>>
              ELSE <<>>)
           \o DecorationsOf(Tail(matches), tree)

\* updateDecorations on the active editor, as the handlers of
\* onDidChangeActiveTextEditor and onDidChangeTextDocument call it
updateDecorations(isEnabled) ==
  /\ decorations' = IF ~isEnabled \/ ~translationsLoaded
                      THEN <<>>
                      ELSE DecorationsOf(ExecLoop(EditorText, 0), translations)
  /\ UNCHANGED <<disk, lastCall, languageFiles, nav, selection, clipboard,
                 scan, table>>
  /\ UNCHANGED storeVars

\* addCompletionItems: one item per key of the tree, in order, with the
\* value as detail when it is a string, then the items of its children
RECURSIVE addCompletionItems(_, _)
addCompletionItems(e, prefix) ==
  IF e = <<>> THEN <<>>
  ELSE LET key == Head(e).k
           value == Head(e).v
           fullKey == IF prefix # <<>> THEN prefix \o <<".">> \o key ELSE key
           item == [label |-> fullKey,
                    detail |-> IF TypeOf(value) = "string" THEN value
                               ELSE Undefined]
       IN  <<item>>
           \o (IF TypeOf(value) = "object"
                 THEN addCompletionItems(value.e, fullKey) ELSE <<>>)
           \o addCompletionItems(Tail(e), prefix)

provideCompletionItems ==
  /\ lastCall' = [NoCall EXCEPT
                    !.fn = "provideCompletionItems",
                    !.loaded = translationsLoaded,
                    !.tree = translations,
                    !.result = IF ~translationsLoaded THEN <<>>
                               ELSE addCompletionItems(translations.e, <<>>)]
  /\ UNCHANGED disk
  /\ UNCHANGED storeVars
  /\ UNCHANGED navVars

\* the while loop of provideCodeActions over the matches on the line of the
\* range: the keys with a value that the range touches
RECURSIVE CodeActionsOf(_, _, _, _)
CodeActionsOf(matches, tree, startCharacter, endCharacter) ==
  IF matches = <<>> THEN <<>>
  ELSE LET match == Head(matches)
           keyStart == match.index + 1
           keyEnd == keyStart + Len(match.m2)
           hit == \/ startCharacter >= keyStart /\ startCharacter <= keyEnd
                  \/ endCharacter >= keyStart /\ endCharacter <= keyEnd
       IN  (IF hit /\ Truthy(getTranslationValue(tree, match.m2))
              THEN <<match.m2>> ELSE <<>>)
           \o CodeActionsOf(Tail(matches), tree, startCharacter, endCharacter)

provideCodeActions(startCharacter, endCharacter) ==
  /\ lastCall' = [NoCall EXCEPT
                    !.fn = "provideCodeActions",
                    !.loaded = translationsLoaded,
                    !.tree = translations,
                    !.result = IF ~translationsLoaded THEN <<>>
                               ELSE CodeActionsOf(ExecLoop(EditorText, 0),
                                                  translations,
                                                  startCharacter, endCharacter)]
  /\ UNCHANGED disk
  /\ UNCHANGED storeVars
  /\ UNCHANGED navVars

InitFlag ==
  /\ disk \in {[f \in Files |-> IF f = EN THEN c ELSE NoFile] :
                 c \in FlagContents}
  /\ translations = JObj(<<>>)
  /\ translationsLoaded = FALSE
  /\ ld = [i \in LoadIds |-> LdIdle]
  /\ ad = AdIdle
  /\ adds = 0
  /\ lastCall = NoCall
  /\ languageFiles = EmptyMap
  /\ nav = [n \in NavIds |-> NavIdle]
  /\ selection = NoSelection
  /\ clipboard = Undefined
  /\ scan = [i \in ScanIds |-> ScanIdle]
  /\ table = TableIdle
  /\ decorations = <<>>

NextFlag ==
  \/ \E i \in LoadIds : LoadStart(i)
  \/ \E i \in LoadIds : LoadPathExists(i)
  \/ \E i \in LoadIds : LoadReadFile(i)
  \/ \E c \in FlagContents : FileChanged(c)
  \/ \E isEnabled \in BOOLEAN : updateDecorations(isEnabled)
  \/ provideCompletionItems
  \/ \E c \in 0..Len(EditorText) : provideCodeActions(c, c)

SpecFlag == InitFlag /\ [][NextFlag]_vars

\* the last call of a provider was made while the flag was false
ProviderCalledUnloaded ==
  /\ lastCall.fn \in {"provideCompletionItems", "provideCodeActions"}
  /\ ~lastCall.loaded

\* C29: while the loaded flag is false the completion provider and the
\* code-action provider return no items and the active editor shows no
\* translation decoration, those rendered before a later load failed
\* included
C29_NothingShownWhileNotLoaded ==
  /\ ProviderCalledUnloaded => lastCall.result = <<>>
  /\ ~translationsLoaded => decorations = <<>>


(***************************************************************************)
(* What a creation leaves of the target file: the leaf paths of the tree   *)
(* read before the prompt and of the tree written                          *)
(***************************************************************************)

\* the dotted paths of the string leaves under the members e
RECURSIVE LeafPaths(_, _)
LeafPaths(e, prefix) ==
  IF e = <<>> THEN {}
  ELSE LET p == PathJoin(prefix, e[1].k)
       IN  (IF e[1].v.t = "object" THEN LeafPaths(e[1].v.e, p) ELSE {p})
           \cup LeafPaths(Tail(e), prefix)

\* q addresses a node strictly above the node p addresses
ProperPrefix(q, p) ==
  LET qs == Split(q, ".")
      ps == Split(p, ".")
  IN  Len(qs) < Len(ps) /\ SubSeq(ps, 1, Len(qs)) = qs

\* the target tree that createMissingTranslation parsed before its prompt
TreeRead(n) == JSONparse(nav[n].targetContent)

\* the leaf paths of the tree read that are neither P nor above P
KeptPaths(n) ==
  {q \in LeafPaths(TreeRead(n).e, <<>>) :
     q # nav[n].keyPath /\ ~ProperPrefix(q, nav[n].keyPath)}

\* C30: a confirmed creation for path P changes only P: every leaf path of
\* the tree read that is neither P nor above P holds the same value in the
\* written file, and the written file has no leaf paths but those and P
C30_CreationChangesOnlyP ==
  \A n \in NavIds :
    (Created(n) /\ nav[n].wrote) =>
      /\ \A q \in KeptPaths(n) : LeafAt(TargetTree(n), q) = LeafAt(TreeRead(n), q)
      /\ LeafPaths(TargetTree(n).e, <<>>) = KeptPaths(n) \cup {nav[n].keyPath}

====
